---- MODULE Spec2Model ----
(***************************************************************************)
(* Model of the ML pipeline example: the drift detector                    *)
(* (monitoring/collectors/drift_detector.py, class DriftDetector), the     *)
(* model deployer (deployment/deploy_model.py, class ModelDeployer), the   *)
(* serving API (serving/api/model_api.py) and the pipeline                 *)
(* (pipelines/ml_pipeline_dag.py).                                         *)
(*                                                                         *)
(* Observations are numbered in arrival order; the number of an            *)
(* observation stands for its prediction and for each of its numeric       *)
(* feature values, so that the content of every sequence tells which       *)
(* observations it holds and in which order.  A drift score is not         *)
(* computed numerically: it is recorded as the default 0.0 (computed =     *)
(* FALSE) or as the result of the test on the window it was given.         *)
(* The Prometheus gauges are write-only sinks and are not part of the      *)
(* state; the push to the gateway is.                                      *)
(*                                                                         *)
(* Spec            the calls of one caller, each run to completion         *)
(* ConcurrentSpec  add_observation run by two callers, statement by        *)
(*                 statement                                               *)
(* DriftScoreSpec  _calculate_distribution_drift on numeric samples, with  *)
(*                 the exact p-value of the two-sample test                *)
(* LargeWindowSpec detect_drift on the buffers of detectors with windows   *)
(*                 of up to 1100 observations                              *)
(* DeploySpec      the calls of the model deployer, its health check one   *)
(*                 request at a time; DeployFairSpec adds that a started   *)
(*                 health check goes on                                    *)
(* ServingSpec     the handlers of the serving API that load models        *)
(* DagSpec         one run of the pipeline, task by task; DagFairSpec adds *)
(*                 that the scheduler and the tasks go on                  *)
(***************************************************************************)
EXTENDS Integers, Sequences, FiniteSets, TLC

VARIABLES
    window_size,            \* self.window_size
    metrics_store,          \* self.metrics_store
    reference_file,         \* what reference_data_path points at
    reference_features,     \* self.reference_features: name -> series
    reference_predictions,  \* self.reference_predictions
    isolation_forest,       \* self.isolation_forest: "None", "unfitted", "fitted"
    current_features,       \* self.current_features: name -> sequence
    current_predictions,    \* self.current_predictions
    drift_log,              \* logs/<model_name>_drift.jsonl, one entry per line
    clock,                  \* number of drift checks started (datetime.now())
    n_obs,                  \* number of add_observation calls so far
    read,                   \* observations that were in a window a check read
    last,                   \* the last call: operation, outcome, checks it
                            \* ran, and where its rendering failed if it did
    irregular,              \* TRUE once a call other than add_observation of
                            \* a complete observation in a working
                            \* environment has been made
    threads,                \* concurrent callers of add_observation: where
                            \* each is in the method, and its locals
    crossings,              \* appends that brought the prediction sequence
                            \* from below window_size to window_size
    overlaps,               \* number of times a caller entered
                            \* add_observation while another was inside it
    samples,                \* two numeric samples and the drift score
                            \* _calculate_distribution_drift gives them
    deployer_config,        \* ModelDeployer.config: models and default_model
    config_file,            \* the configuration file at config_path
    config_backup,          \* the file at config_path + ".bak"
    deployment,             \* the deployer's call in progress, or its last
                            \* call: arguments, position, outcome
    api_config,             \* the serving API's config: models, default_model
    loaded_models,          \* the serving API's cache: name -> loaded object
    store_reads,            \* per model, the number of times it was read
                            \* from its backing store successfully
    served,                 \* the last call the serving API handled
    task_state,             \* the pipeline run: state of each task instance
    task_tries,             \* the number of tries of each task started
    xcom,                   \* what the tasks of the run have pushed
    started                 \* the tasks in the order of their first start

vars == <<window_size, metrics_store, reference_file, reference_features,
          reference_predictions, isolation_forest, current_features,
          current_predictions, drift_log, clock, n_obs, read, last,
          irregular, threads, crossings, overlaps,
          samples,
          deployer_config, config_file, config_backup, deployment,
          api_config, loaded_models, store_reads, served,
          task_state, task_tries, xcom, started>>

\* The state of the concurrent callers.
callers == <<threads, crossings, overlaps>>

\* The buffer, the log and the bookkeeping of the calls.
run == <<current_features, current_predictions, drift_log, clock, n_obs, read,
         last, irregular>>

\* What the constructor was given.
config == <<window_size, metrics_store, reference_file>>

\* The model deployer: its configuration in memory and on disk, and its call.
deployer == <<deployer_config, config_file, config_backup, deployment>>

\* The state of the other programs of the pipeline, which the drift detector
\* neither reads nor writes.
elsewhere == <<deployer, api_config, loaded_models, store_reads, served,
               task_state, task_tries, xcom, started>>

------------------------------------------------------------------------------
(* Bounds of the model *)

WindowSizes == {3, 10}
MaxObs == 19
MaxChecks == 3
ReferenceRows == 2
MaxConcurrentObs == 11
MaxOverlaps == 1
MaxSampleValues == 6

(* Inputs *)

\* The callers that share one detector.
Threads == {1, 2}

Features == {"f1", "f2"}
ValueKinds == {"float", "str"}
MetricsStores == {"prometheus", "local"}
ModelName == "example_model"
ModelVersion == "1.0.0"

\* The ground_truth argument: absent (the default) or a label.
GroundTruths == {"None", "label"}

\* isinstance(feature_value, (int, float))
IsNumeric(kind) == kind \in {"int", "float"}

\* A features argument: any subset of the feature names, each with a value.
Observations == UNION {[S -> ValueKinds] : S \in SUBSET Features}

\* The observation with a float for every feature.
NumericObservation == [f \in Features |-> "float"]

\* The observation that carries a numeric value for every feature.
Complete(obs) == DOMAIN obs = Features /\ \A f \in Features : IsNumeric(obs[f])

\* What can fail during one call, as the environment decides.
Envs == [ks_fails : BOOLEAN, anomaly_fails : BOOLEAN,
         push_fails : BOOLEAN, log_fails : BOOLEAN]
NoFault == [ks_fails |-> FALSE, anomaly_fails |-> FALSE,
            push_fails |-> FALSE, log_fails |-> FALSE]

\* Reference files: none given, unreadable, readable but unfit for the
\* anomaly model, and two good files with one and two feature columns.
ReferenceFiles ==
    { [name |-> "none",     given |-> FALSE, readable |-> FALSE, columns |-> {},           fit_ok |-> FALSE],
      [name |-> "missing",  given |-> TRUE,  readable |-> FALSE, columns |-> {},           fit_ok |-> FALSE],
      [name |-> "unfit",    given |-> TRUE,  readable |-> TRUE,  columns |-> {"f1", "f2"}, fit_ok |-> FALSE],
      [name |-> "one_col",  given |-> TRUE,  readable |-> TRUE,  columns |-> {"f1"},       fit_ok |-> TRUE],
      [name |-> "two_cols", given |-> TRUE,  readable |-> TRUE,  columns |-> {"f1", "f2"}, fit_ok |-> TRUE] }

------------------------------------------------------------------------------
(* Helpers *)

Min(a, b) == IF a <= b THEN a ELSE b

\* Python's s[-k:]: the last k elements, and the whole of s when k = 0
\* (s[-0:] is s[0:]) or k >= len(s).
PyTail(s, k) ==
    IF k = 0 \/ k >= Len(s) THEN s ELSE SubSeq(s, Len(s) - k + 1, Len(s))

Range(s) == {s[i] : i \in 1..Len(s)}

EmptyMap == [f \in {} |-> <<>>]

\* The observations k+1 .. n in arrival order.
Arrivals(k, n) == [i \in 1..(n - k) |-> k + i]

------------------------------------------------------------------------------
(* Construction: __init__, _load_reference_data, _train_anomaly_detector *)

\* A reference column or the prediction column as read from the file.
ReferenceSeries == [i \in 1..ReferenceRows |-> 0 - i]

\* _train_anomaly_detector: the estimator object is assigned before fit is
\* called, so a fit that raises (caught and logged) leaves an unfitted one.
TrainAnomalyDetector(file) == IF file.fit_ok THEN "fitted" ELSE "unfitted"

\* Variant: the estimator object is created before the file is read, so a
\* failed read leaves an unfitted estimator behind.
LoadReferenceData_ForestFirst(file) ==
    IF file.given /\ file.readable
    THEN [reference_features    |-> [c \in file.columns |-> ReferenceSeries],
          current_features      |-> [c \in file.columns |-> <<>>],
          reference_predictions |-> ReferenceSeries,
          isolation_forest      |-> TrainAnomalyDetector(file)]
    ELSE [reference_features    |-> EmptyMap,
          current_features      |-> EmptyMap,
          reference_predictions |-> <<>>,
          isolation_forest      |-> IF file.given THEN "unfitted" ELSE "None"]

\* __init__ with _load_reference_data: no path, or a read_csv that raises
\* (caught and logged), leaves the containers as __init__ created them.
LoadReferenceData(file) ==
    IF file.given /\ file.readable
    THEN [reference_features    |-> [c \in file.columns |-> ReferenceSeries],
          current_features      |-> [c \in file.columns |-> <<>>],
          reference_predictions |-> ReferenceSeries,
          isolation_forest      |-> TrainAnomalyDetector(file)]
    ELSE [reference_features    |-> EmptyMap,
          current_features      |-> EmptyMap,
          reference_predictions |-> <<>>,
          isolation_forest      |-> "None"]

------------------------------------------------------------------------------
(* Scores and reports *)

ZeroScore == [computed |-> FALSE, reference |-> <<>>, current |-> <<>>]
ZeroAnomaly == [computed |-> FALSE, matrix |-> EmptyMap]

NoReport ==
    [timestamp |-> 0, model_name |-> ModelName, model_version |-> ModelVersion,
     feature_drift |-> EmptyMap, prediction_drift |-> ZeroScore,
     concept_drift |-> ZeroScore, anomaly_score |-> ZeroAnomaly]

\* Variant: the test is not wrapped in try/except.
CalculateDistributionDrift_NoTry(reference_values, current_values, env) ==
    IF env.ks_fails \/ Len(reference_values) = 0 \/ Len(current_values) = 0
    THEN [raised |-> TRUE, score |-> ZeroScore]
    ELSE [raised |-> FALSE,
          score  |-> [computed |-> TRUE, reference |-> reference_values,
                      current |-> current_values]]

\* _calculate_distribution_drift: 1 - p_value of ks_2samp on the two
\* samples; any exception of the test (an empty sample among them) is
\* caught and 0.0 is returned.
CalculateDistributionDrift(reference_values, current_values, env) ==
    IF env.ks_fails \/ Len(reference_values) = 0 \/ Len(current_values) = 0
    THEN [raised |-> FALSE, score |-> ZeroScore]
    ELSE [raised |-> FALSE,
          score  |-> [computed |-> TRUE, reference |-> reference_values,
                      current |-> current_values]]

\* Variant: no test of the window's length.
FeatureDrift_NoEmptyTest(cf, ref, env) ==
    [f \in {g \in DOMAIN cf : g \in DOMAIN ref} |->
        CalculateDistributionDrift(ref[f], cf[f], env)]

\* detect_drift, lines 195-202: one score per accumulated feature that is in
\* the reference data and whose window is not empty.
FeatureDrift(cf, ref, env) ==
    [f \in {g \in DOMAIN cf : g \in DOMAIN ref /\ Len(cf[g]) > 0} |->
        CalculateDistributionDrift(ref[f], cf[f], env)]

\* detect_drift, lines 216-222.
PredictionDrift(cp, refp, env) ==
    IF Len(refp) > 0 /\ Len(cp) > 0
    THEN CalculateDistributionDrift(refp, cp, env)
    ELSE [raised |-> FALSE, score |-> ZeroScore]

\* detect_drift, lines 238-243: the columns of feature_df.
AnomalyColumns(cf, ws) == {f \in DOMAIN cf : Len(cf[f]) >= ws}

\* IsolationForest.score_samples(feature_df), line 246, raises when the
\* estimator is not fitted and when feature_df does not have as many
\* columns as the data it was fitted on (the reference feature columns).
\* Whether it also raises on the right number of columns under other names
\* depends on the library version, and on the values otherwise: both are
\* left to the environment.
ScoreSamplesRaises(forest, columns, fitted_columns, env) ==
    \/ forest # "fitted"
    \/ Cardinality(columns) # Cardinality(fitted_columns)
    \/ env.anomaly_fails

\* Variant: the scoring is not wrapped in try/except.
AnomalyScore_NoTry(cf, ws, forest, fitted_columns, env) ==
    IF forest = "None"
    THEN [raised |-> FALSE, attempted |-> FALSE, score |-> ZeroAnomaly]
    ELSE LET columns == AnomalyColumns(cf, ws)
             feature_df == [f \in columns |-> PyTail(cf[f], ws)]
         IN  IF ScoreSamplesRaises(forest, columns, fitted_columns, env)
             THEN [raised |-> TRUE, attempted |-> TRUE, score |-> ZeroAnomaly]
             ELSE [raised |-> FALSE, attempted |-> TRUE,
                   score |-> [computed |-> TRUE, matrix |-> feature_df]]

\* detect_drift, lines 235-262: skipped without an estimator; otherwise any
\* exception is caught and logged and the score stays 0.0.
AnomalyScore(cf, ws, forest, fitted_columns, env) ==
    IF forest = "None"
    THEN [raised |-> FALSE, attempted |-> FALSE, score |-> ZeroAnomaly]
    ELSE LET columns == AnomalyColumns(cf, ws)
             feature_df == [f \in columns |-> PyTail(cf[f], ws)]
         IN  IF ScoreSamplesRaises(forest, columns, fitted_columns, env)
             THEN [raised |-> FALSE, attempted |-> TRUE, score |-> ZeroAnomaly]
             ELSE [raised |-> FALSE, attempted |-> TRUE,
                   score |-> [computed |-> TRUE, matrix |-> feature_df]]

\* Variant: the push is not wrapped in try/except.
PushMetrics_NoTry(store, env) ==
    IF store = "prometheus"
    THEN IF env.push_fails
         THEN [raised |-> TRUE, pushed |-> FALSE]
         ELSE [raised |-> FALSE, pushed |-> TRUE]
    ELSE [raised |-> FALSE, pushed |-> FALSE]

\* detect_drift, lines 264-273: push_to_gateway, its exceptions caught.
PushMetrics(store, env) ==
    IF store = "prometheus"
    THEN IF env.push_fails
         THEN [raised |-> FALSE, pushed |-> FALSE]
         ELSE [raised |-> FALSE, pushed |-> TRUE]
    ELSE [raised |-> FALSE, pushed |-> FALSE]

\* Variant: the log file is opened with "w", not "a".
LogDriftMetrics_Truncate(log, drift_metrics, env) ==
    IF env.log_fails
    THEN [raised |-> FALSE, logged |-> FALSE, drift_log |-> log]
    ELSE [raised |-> FALSE, logged |-> TRUE, drift_log |-> <<drift_metrics>>]

\* Variant: the write is not wrapped in try/except.
LogDriftMetrics_NoTry(log, drift_metrics, env) ==
    IF env.log_fails
    THEN [raised |-> TRUE, logged |-> FALSE, drift_log |-> log]
    ELSE [raised |-> FALSE, logged |-> TRUE,
          drift_log |-> Append(log, drift_metrics)]

\* _log_drift_metrics: one line appended to the log file, whatever the
\* metrics store; an exception of open or write is caught.
LogDriftMetrics(log, drift_metrics, env) ==
    IF env.log_fails
    THEN [raised |-> FALSE, logged |-> FALSE, drift_log |-> log]
    ELSE [raised |-> FALSE, logged |-> TRUE,
          drift_log |-> Append(log, drift_metrics)]

------------------------------------------------------------------------------
(* _reset_current_data *)

\* Variant: a fifth of the window is retained.
BufferSize_Fifth(ws) == Min(100, ws \div 5)

\* Line 323.
BufferSize(ws) == Min(100, ws \div 10)

\* Variant: the slice keeps the head, s[:buffer_size].
TrimSequence_KeepHead(s, buffer_size) ==
    IF Len(s) > buffer_size THEN SubSeq(s, 1, buffer_size) ELSE <<>>

\* Variant: a container that holds exactly buffer_size elements is kept.
TrimSequence_KeepEqual(s, buffer_size) ==
    IF Len(s) >= buffer_size THEN PyTail(s, buffer_size) ELSE <<>>

\* One container: its last buffer_size elements if it is longer than that,
\* else the empty list.
TrimSequence(s, buffer_size) ==
    IF Len(s) > buffer_size THEN PyTail(s, buffer_size) ELSE <<>>

\* Variant: only the prediction sequence is trimmed.
ResetCurrentData_PredictionsOnly(cf, cp, ws) ==
    [current_features    |-> cf,
     current_predictions |-> TrimSequence(cp, BufferSize(ws))]

\* Lines 323-334: every feature sequence, then the prediction sequence.
ResetCurrentData(cf, cp, ws) ==
    [current_features    |-> [f \in DOMAIN cf |-> TrimSequence(cf[f], BufferSize(ws))],
     current_predictions |-> TrimSequence(cp, BufferSize(ws))]

------------------------------------------------------------------------------
(* detect_drift *)

\* One run of detect_drift on the buffer (cf, cp), the log and the time clk.
\* The result holds the buffer and the log as the run leaves them, the
\* report it returns, the window it read (snapshot) and how far it got: an
\* exception that escapes a step ends the run there, before the log entry
\* and the trim.
DetectDrift(cf, cp, log, clk, env) ==
    LET features == FeatureDrift(cf, reference_features, env)
        prediction == PredictionDrift(cp, reference_predictions, env)
        anomaly == AnomalyScore(cf, window_size, isolation_forest,
                                DOMAIN reference_features, env)
        push == PushMetrics(metrics_store, env)
        drift_metrics ==
            [timestamp        |-> clk + 1,
             model_name       |-> ModelName,
             model_version    |-> ModelVersion,
             feature_drift    |-> [f \in DOMAIN features |-> features[f].score],
             prediction_drift |-> prediction.score,
             concept_drift    |-> ZeroScore,
             anomaly_score    |-> anomaly.score]
        logging == LogDriftMetrics(log, drift_metrics, env)
        scoring_raised == \/ \E f \in DOMAIN features : features[f].raised
                          \/ prediction.raised
                          \/ anomaly.raised
                          \/ push.raised
        raised == scoring_raised \/ logging.raised
        reset == ResetCurrentData(cf, cp, window_size)
    IN  [current_features    |-> IF raised THEN cf ELSE reset.current_features,
         current_predictions |-> IF raised THEN cp ELSE reset.current_predictions,
         drift_log           |-> IF scoring_raised THEN log ELSE logging.drift_log,
         raised              |-> raised,
         returned            |-> IF raised THEN NoReport ELSE drift_metrics,
         snapshot            |-> [features |-> cf, predictions |-> cp],
         pushed              |-> ~scoring_raised /\ push.pushed,
         logged              |-> ~scoring_raised /\ logging.logged,
         trimmed             |-> ~raised,
         env                 |-> env]

\* Variant: a drift check fits the estimator it finds unfitted.
ReferenceUntouched_Refit ==
    /\ reference_features' = reference_features
    /\ reference_predictions' = reference_predictions
    /\ isolation_forest' = IF isolation_forest = "unfitted" /\ clock' > clock
                           THEN "fitted" ELSE isolation_forest

\* add_observation, detect_drift, _calculate_distribution_drift,
\* _log_drift_metrics, _reset_current_data and generate_drift_report read
\* self.reference_features, self.reference_predictions and
\* self.isolation_forest (ks_2samp, score_samples, kdeplot) and none of
\* them assigns to them or changes them in place.
ReferenceUntouched ==
    /\ reference_features' = reference_features
    /\ reference_predictions' = reference_predictions
    /\ isolation_forest' = isolation_forest

\* What `last` keeps of a run.
CheckRecord(d) ==
    [raised |-> d.raised, returned |-> d.returned, snapshot |-> d.snapshot,
     pushed |-> d.pushed, logged |-> d.logged, trimmed |-> d.trimmed,
     env |-> d.env]

NoCharts == [drawn |-> FALSE, features |-> EmptyMap, predictions |-> <<>>]

------------------------------------------------------------------------------
(* _calculate_distribution_drift on numeric samples.  A sample is a set of
   distinct numbers.  Scores are exact fractions [num, den]. *)

Abs(x) == IF x < 0 THEN 0 - x ELSE x

Max(S) == CHOOSE x \in S : \A y \in S : y <= x

NoSamples ==
    [reference_values |-> {}, current_values |-> {}, computed |-> FALSE,
     drift_score |-> [num |-> 0, den |-> 1]]

\* Reference and current samples drawn from the same continuous
\* distribution: every way of splitting the first n numbers, n up to
\* MaxSampleValues, into the two samples is equally likely.
SamplePairs ==
    UNION {{[reference_values |-> R, current_values |-> (1..n) \ R] :
                R \in (SUBSET (1..n)) \ {{}, 1..n}} :
           n \in 2..MaxSampleValues}

\* The statistic of scipy.stats.ks_2samp, the largest distance between the
\* two empirical distribution functions, times len(reference) * len(current).
KsStatistic(reference_values, current_values) ==
    Max({Abs(Cardinality(current_values)
                 * Cardinality({r \in reference_values : r <= v})
             - Cardinality(reference_values)
                 * Cardinality({c \in current_values : c <= v})) :
         v \in reference_values \cup current_values})

\* The two-sided p-value of ks_2samp, which is exact for samples this
\* small: among the equally likely splits of the pooled values into samples
\* of these sizes, the fraction whose statistic is at least the observed one.
KsPValue(reference_values, current_values) ==
    LET pooled == reference_values \cup current_values
        splits == {R \in SUBSET pooled :
                      Cardinality(R) = Cardinality(reference_values)}
        observed == KsStatistic(reference_values, current_values)
    IN  [num |-> Cardinality({R \in splits :
                                 KsStatistic(R, pooled \ R) >= observed}),
         den |-> Cardinality(splits)]

\* Lines 298-309: drift_score = 1.0 - p_value, and 0.0 when ks_2samp raises,
\* as it does on an empty sample.
DistributionDriftScore(reference_values, current_values) ==
    IF reference_values = {} \/ current_values = {}
    THEN [num |-> 0, den |-> 1]
    ELSE LET p_value == KsPValue(reference_values, current_values)
         IN  [num |-> p_value.den - p_value.num, den |-> p_value.den]

\* drift_threshold, the default of __init__: 0.05 = 5 / 100.
DriftThreshold == [num |-> 5, den |-> 100]

\* a < b for fractions with positive denominators.
Below(a, b) == a.num * b.den < b.num * a.den

------------------------------------------------------------------------------
(* The model deployer (deployment/deploy_model.py, class ModelDeployer) *)

\* Names a command can be given; "m2" is in no configuration file at the
\* start.
DeployableModels == {"m1", "m2"}

\* An entry of config["models"] is "absent", "mlflow" (an entry with a
\* run_id, what register_model writes) or "pickle" (an entry without one, a
\* pickle model of the serving configuration).
\* The configuration files a deployer is constructed from: no model, or a
\* pickle model that is the default.
ConfigFiles ==
    {[models |-> [m \in DeployableModels |-> "absent"], default_model |-> "None"],
     [models |-> [m \in DeployableModels |->
                     IF m = "m1" THEN "pickle" ELSE "absent"],
      default_model |-> "m1"]}

\* The default of max_retries.
MaxRetries == 5

\* The retry budgets _check_server_health is called with.
RetryBudgets == {0, 1, 3, MaxRetries}

\* What one health request comes back with: status 200 and status field
\* "healthy"; another status code or another status field; a
\* requests.exceptions.RequestException; status 200 and a body that is not a
\* JSON object, on which response.json().get raises another exception.
HealthOutcomes == {"healthy", "unhealthy", "request_error", "malformed"}

\* What a call depends on outside the deployer: the tracking server answers
\* (get_run, load_model), the backup and the configuration file can be
\* written, the requests package can be imported.
DeployEnvs == [mlflow_ok : BOOLEAN, backup_ok : BOOLEAN, write_ok : BOOLEAN,
               requests_ok : BOOLEAN]

\* A file that does not exist.
NoFile == [missing |-> TRUE]

NoCall ==
    [op |-> "__init__", pc |-> "done", model_name |-> "None",
     set_as_default |-> FALSE, restart_server |-> FALSE, server_url |-> FALSE,
     max_retries |-> 0, attempts |-> 0, seen |-> {}, health |-> "None",
     returned |-> "None",
     before |-> [config |-> CHOOSE c \in ConfigFiles : c.default_model = "None",
                 file |-> CHOOSE c \in ConfigFiles : c.default_model = "None"]]

\* A deployer constructed from a configuration file.
DeployerInit ==
    /\ config_file \in ConfigFiles
    /\ deployer_config = config_file
    /\ config_backup = NoFile
    /\ deployment = [NoCall EXCEPT !.before = [config |-> config_file,
                                               file |-> config_file]]

\* No deployer: the drift detector runs without one.
DeployerIdle ==
    /\ DeployerInit
    /\ config_file.default_model = "None"

------------------------------------------------------------------------------
(* The serving API (serving/api/model_api.py) *)

\* Names a request can ask for.
ServedModels == {"m1", "m2"}

\* An entry of config.models: none; an mlflow entry with or without run_id
\* (the type defaults to mlflow); a pickle entry with or without path; an
\* entry of another type.
ServedEntries == {"absent", "mlflow", "mlflow_no_run_id", "pickle",
                  "pickle_no_path", "unsupported"}

\* The configurations the module can be imported with.  default_model is
\* whatever the file says, configured or not.
ApiConfigs == [models : [ServedModels -> ServedEntries],
               default_model : ServedModels \cup {"None"}]

\* No object.  The object read from the store of model m at its k-th
\* successful read is [model |-> m, read |-> k].
NoModel == [model |-> "None", read |-> 0]

\* Nothing handled yet: the module has been imported.
NoRequest ==
    [op |-> "import", model_name |-> "None", outcome |-> "none",
     load_status |-> 0, status |-> 0, object |-> NoModel]

\* The module after import: a configuration, an empty cache.
ApiInit ==
    /\ api_config \in ApiConfigs
    /\ loaded_models = [m \in ServedModels |-> NoModel]
    /\ store_reads = [m \in ServedModels |-> 0]
    /\ served = NoRequest

\* The configuration used when the file cannot be read.
ApiIdle ==
    /\ ApiInit
    /\ api_config = [models |-> [m \in ServedModels |-> "absent"],
                     default_model |-> "None"]

------------------------------------------------------------------------------
(* The pipeline (pipelines/ml_pipeline_dag.py) *)

\* The tasks, in the order the file defines them.
Tasks == <<"data_validation_sensor", "ingest_data", "feature_engineering",
           "train_model", "evaluate_model", "deploy_model",
           "setup_monitoring", "deployment_notification">>

TaskIds == Range(Tasks)

\* default_args["retries"]
Retries == 1

\* The accuracy, in percent, that evaluate() reports; metrics may lack the
\* key.
Metrics == {[has_accuracy |-> FALSE, accuracy |-> 0]} \cup
           {[has_accuracy |-> TRUE, accuracy |-> a] : a \in {0, 79, 80, 100}}

\* Nothing pushed.
NoXcom == [evaluated |-> FALSE, should_deploy |-> FALSE,
           metrics |-> [has_accuracy |-> FALSE, accuracy |-> 0],
           deployment_success |-> "None"]

\* A run that the scheduler has just created.
DagRunInit ==
    /\ task_state = [t \in TaskIds |-> "none"]
    /\ task_tries = [t \in TaskIds |-> 0]
    /\ xcom = NoXcom
    /\ started = <<>>

------------------------------------------------------------------------------
(* The state after construction *)

DetectorInit ==
    /\ window_size \in WindowSizes
    /\ metrics_store \in MetricsStores
    /\ reference_file \in ReferenceFiles
    /\ LET loaded == LoadReferenceData(reference_file)
       IN  /\ reference_features = loaded.reference_features
           /\ reference_predictions = loaded.reference_predictions
           /\ isolation_forest = loaded.isolation_forest
           /\ current_features = loaded.current_features
    /\ current_predictions = <<>>
    /\ drift_log = <<>>
    /\ clock = 0
    /\ n_obs = 0
    /\ read = {}
    /\ last = [op |-> "__init__", features |-> EmptyMap, raised |-> FALSE,
               returned |-> "None", checks |-> <<>>, charts |-> NoCharts,
               fail_at |-> "none", ground_truth |-> "None"]
    /\ irregular = FALSE
    /\ threads = [t \in Threads |-> [pc |-> "idle", value |-> 0, kept |-> <<>>]]
    /\ crossings = 0
    /\ overlaps = 0
    /\ samples = NoSamples

\* A drift detector on its own.
Init ==
    /\ DetectorInit
    /\ DeployerIdle
    /\ ApiIdle
    /\ DagRunInit

------------------------------------------------------------------------------
(* add_observation *)

\* Variant: no isinstance test, every value is appended.
AppendFeatures_NoTypeCheck(cf, obs, value) ==
    [f \in DOMAIN cf \cup DOMAIN obs |->
        IF f \in DOMAIN obs
        THEN IF f \in DOMAIN cf THEN Append(cf[f], value) ELSE <<value>>
        ELSE cf[f]]

\* Lines 163-169: each numeric value is appended to the sequence of its
\* feature, which is created when the name is new.
AppendFeatures(cf, obs, value) ==
    LET numeric == {f \in DOMAIN obs : IsNumeric(obs[f])}
    IN  [f \in DOMAIN cf \cup numeric |->
            IF f \in numeric
            THEN IF f \in DOMAIN cf THEN Append(cf[f], value) ELSE <<value>>
            ELSE cf[f]]

\* Variant: a drift check on every observation.
IsReady_Always(cp, ws) == Len(cp) >= 1

\* Line 175: enough data to detect drift.
IsReady(cp, ws) == Len(cp) >= ws

\* Variant: an observation that comes with its ground truth is kept out of
\* the prediction window.
Observe_LabelledApart(cf, cp, obs, value, ground_truth) ==
    [features    |-> AppendFeatures(cf, obs, value),
     predictions |-> IF ground_truth = "None" THEN Append(cp, value) ELSE cp]

\* Lines 163-172: the appends of one observation.  ground_truth is a
\* parameter of the method that its body never reads.
Observe(cf, cp, obs, value, ground_truth) ==
    [features    |-> AppendFeatures(cf, obs, value),
     predictions |-> Append(cp, value)]

AddObservation(obs, ground_truth, env) ==
    /\ n_obs < MaxObs
    /\ clock < MaxChecks
    /\ ~irregular \/ (Complete(obs) /\ env = NoFault)
    /\ LET value == n_obs + 1
           observed == Observe(current_features, current_predictions, obs,
                               value, ground_truth)
           cf == observed.features
           cp == observed.predictions
           d == DetectDrift(cf, cp, drift_log, clock, env)
       IN  IF IsReady(cp, window_size)
           THEN /\ current_features' = d.current_features
                /\ current_predictions' = d.current_predictions
                /\ drift_log' = d.drift_log
                /\ clock' = clock + 1
                /\ read' = read \cup Range(d.snapshot.predictions)
                /\ last' = [op |-> "add_observation", features |-> obs,
                            raised |-> d.raised, returned |-> "None",
                            checks |-> <<CheckRecord(d)>>, charts |-> NoCharts,
                            fail_at |-> "none", ground_truth |-> ground_truth]
           ELSE /\ env = NoFault
                /\ current_features' = cf
                /\ current_predictions' = cp
                /\ last' = [op |-> "add_observation", features |-> obs,
                            raised |-> FALSE, returned |-> "None",
                            checks |-> <<>>, charts |-> NoCharts,
                            fail_at |-> "none", ground_truth |-> ground_truth]
                /\ UNCHANGED <<drift_log, clock, read>>
    /\ n_obs' = n_obs + 1
    /\ irregular' = (irregular \/ ~Complete(obs) \/ env # NoFault)
    /\ ReferenceUntouched
    /\ UNCHANGED <<config, callers, samples, elsewhere>>

------------------------------------------------------------------------------
(* detect_drift called by the user of the detector *)

CallDetectDrift(env) ==
    /\ ~irregular
    /\ clock < MaxChecks
    /\ LET d == DetectDrift(current_features, current_predictions,
                            drift_log, clock, env)
       IN  /\ current_features' = d.current_features
           /\ current_predictions' = d.current_predictions
           /\ drift_log' = d.drift_log
           /\ read' = read \cup Range(d.snapshot.predictions)
           /\ last' = [op |-> "detect_drift", features |-> EmptyMap,
                       raised |-> d.raised,
                       returned |-> IF d.raised THEN "None" ELSE "report",
                       checks |-> <<CheckRecord(d)>>, charts |-> NoCharts,
                       fail_at |-> "none", ground_truth |-> "None"]
    /\ clock' = clock + 1
    /\ irregular' = TRUE
    /\ ReferenceUntouched
    /\ UNCHANGED <<config, n_obs, callers, samples, elsewhere>>

------------------------------------------------------------------------------
(* generate_drift_report *)

\* Where the rendering can fail: opening the report file, a write after the
\* first, second or third detect_drift call, os.makedirs (os is imported
\* only when the module runs as a script), drawing a chart.
FailPoints == {"none", "open", "write1", "write2", "write3", "makedirs", "chart"}

\* The number of detect_drift calls reached before the failure.
DetectCalls(fail_at) ==
    CASE fail_at = "open"   -> 0
      [] fail_at = "write1" -> 1
      [] fail_at = "write2" -> 2
      [] OTHER              -> 3

\* The runs of detect_drift made by one generate_drift_report call, in
\* order: lines 375, 393 and 411 each call it (d1, d2, d3 below, each on
\* the buffer the previous one left); a failure of the rendering, or a run
\* that raises, ends the sequence.
ReportRuns(ds, calls) ==
    IF calls = 0 THEN <<>>
    ELSE IF calls = 1 \/ ds[1].raised THEN SubSeq(ds, 1, 1)
    ELSE IF calls = 2 \/ ds[2].raised THEN SubSeq(ds, 1, 2)
    ELSE ds

\* Variant: the charts are drawn after the try block.
RenderOutcome_ChartsOutsideTry(fail_at, check_raised) ==
    IF fail_at \in {"makedirs", "chart"}
    THEN [raised |-> TRUE, returned |-> "None"]
    ELSE IF fail_at # "none" \/ check_raised
         THEN [raised |-> FALSE, returned |-> ""]
         ELSE [raised |-> FALSE, returned |-> "path"]

\* Lines 349-457: the report file, the drift checks, os.makedirs and the
\* charts are all inside one try block whose last statement returns
\* report_path; the handler of Exception logs and returns "".
RenderOutcome(fail_at, check_raised) ==
    IF fail_at # "none" \/ check_raised
    THEN [raised |-> FALSE, returned |-> ""]
    ELSE [raised |-> FALSE, returned |-> "path"]

GenerateDriftReport(fail_at, env) ==
    /\ ~irregular
    /\ clock < MaxChecks
    /\ \E d1 \in {DetectDrift(current_features, current_predictions,
                              drift_log, clock, env)} :
       \E d2 \in {DetectDrift(d1.current_features, d1.current_predictions,
                              d1.drift_log, clock + 1, env)} :
       \E d3 \in {DetectDrift(d2.current_features, d2.current_predictions,
                              d2.drift_log, clock + 2, env)} :
       LET runs == ReportRuns(<<d1, d2, d3>>, DetectCalls(fail_at))
           n == Len(runs)
           cf == IF n = 0 THEN current_features ELSE runs[n].current_features
           cp == IF n = 0 THEN current_predictions ELSE runs[n].current_predictions
           outcome == RenderOutcome(fail_at, \E i \in 1..n : runs[i].raised)
           failed == outcome.returned # "path"
       IN  \* a write inside the feature loop needs a feature to report
           /\ fail_at = "write1" => DOMAIN d1.returned.feature_drift # {}
           /\ current_features' = cf
           /\ current_predictions' = cp
           /\ drift_log' = IF n = 0 THEN drift_log ELSE runs[n].drift_log
           /\ clock' = clock + n
           /\ read' = read \cup UNION {Range(runs[i].snapshot.predictions) : i \in 1..n}
           /\ last' = [op |-> "generate_drift_report", features |-> EmptyMap,
                       raised |-> outcome.raised,
                       returned |-> outcome.returned,
                       checks |-> [i \in 1..n |-> CheckRecord(runs[i])],
                       charts |-> IF failed THEN NoCharts
                                  ELSE [drawn |-> TRUE,
                                        features |-> [f \in DOMAIN cf \cap DOMAIN reference_features |-> cf[f]],
                                        predictions |-> cp],
                       fail_at |-> fail_at, ground_truth |-> "None"]
    /\ irregular' = TRUE
    /\ ReferenceUntouched
    /\ UNCHANGED <<config, n_obs, callers, samples, elsewhere>>

------------------------------------------------------------------------------
(* Specification *)

Next ==
    \/ \E obs \in Observations, ground_truth \in GroundTruths, env \in Envs :
          AddObservation(obs, ground_truth, env)
    \/ \E env \in Envs : CallDetectDrift(env)
    \/ \E fail_at \in FailPoints, env \in Envs : GenerateDriftReport(fail_at, env)

Spec == Init /\ [][Next]_vars

------------------------------------------------------------------------------
(* add_observation run by concurrent callers on one detector.  The class
   takes no lock; a caller can be preempted between any two statements, and
   between the evaluation of a right-hand side and the assignment of its
   value.  Each action below is one such piece of lines 163-176, 178-276 and
   320-334; the callers pass complete numeric observations and nothing in
   the environment fails. *)

At(t, pc) == threads[t].pc = pc

Goto(t, pc) == threads' = [threads EXCEPT ![t].pc = pc]

\* The call is made: the observation gets its number.
Enter(t) ==
    /\ At(t, "idle")
    /\ n_obs < MaxConcurrentObs
    /\ n_obs' = n_obs + 1
    /\ threads' = [threads EXCEPT ![t] = [pc |-> "features", value |-> n_obs + 1,
                                          kept |-> <<>>]]
    /\ LET overlap == \E u \in Threads \ {t} : ~At(u, "idle")
       IN  /\ overlap => overlaps < MaxOverlaps
           /\ overlaps' = IF overlap THEN overlaps + 1 ELSE overlaps
    /\ ReferenceUntouched
    /\ UNCHANGED <<config, current_features, current_predictions, drift_log,
                   clock, read, last, irregular, crossings,
                   samples, elsewhere>>

\* Lines 163-169.
ThreadAppendFeatures(t) ==
    /\ At(t, "features")
    /\ current_features' = AppendFeatures(current_features, NumericObservation,
                                          threads[t].value)
    /\ Goto(t, "prediction")
    /\ ReferenceUntouched
    /\ UNCHANGED <<config, current_predictions, drift_log, clock, n_obs, read,
                   last, irregular, crossings, overlaps,
                   samples, elsewhere>>

\* Line 172.
ThreadAppendPrediction(t) ==
    /\ At(t, "prediction")
    /\ current_predictions' = Append(current_predictions, threads[t].value)
    /\ crossings' = IF Len(current_predictions) + 1 = window_size
                    THEN crossings + 1 ELSE crossings
    /\ Goto(t, "ready")
    /\ ReferenceUntouched
    /\ UNCHANGED <<config, current_features, drift_log, clock, n_obs, read,
                   last, irregular, overlaps,
                   samples, elsewhere>>

\* Line 175.
ThreadTestReady(t) ==
    /\ At(t, "ready")
    /\ Goto(t, IF IsReady(current_predictions, window_size) THEN "detect" ELSE "idle")
    /\ ReferenceUntouched
    /\ UNCHANGED <<config, current_features, current_predictions, drift_log,
                   clock, n_obs, read, last, irregular, crossings, overlaps,
                   samples, elsewhere>>

\* detect_drift, lines 185-276: the scores, the push and the log entry.
ThreadScore(t) ==
    /\ At(t, "detect")
    /\ LET d == DetectDrift(current_features, current_predictions, drift_log,
                            clock, NoFault)
       IN  /\ drift_log' = d.drift_log
           /\ read' = read \cup Range(d.snapshot.predictions)
    /\ clock' = clock + 1
    /\ Goto(t, "reset_features")
    /\ ReferenceUntouched
    /\ UNCHANGED <<config, current_features, current_predictions, n_obs, last,
                   irregular, crossings, overlaps,
                   samples, elsewhere>>

\* _reset_current_data, lines 323-329.
ThreadResetFeatures(t) ==
    /\ At(t, "reset_features")
    /\ current_features' =
          ResetCurrentData(current_features, current_predictions,
                           window_size).current_features
    /\ Goto(t, "slice")
    /\ ReferenceUntouched
    /\ UNCHANGED <<config, current_predictions, drift_log, clock, n_obs, read,
                   last, irregular, crossings, overlaps,
                   samples, elsewhere>>

\* Lines 331-334, the right-hand side: the list that will be assigned.
ThreadSlicePredictions(t) ==
    /\ At(t, "slice")
    /\ threads' = [threads EXCEPT
                      ![t].pc = "store",
                      ![t].kept = TrimSequence(current_predictions,
                                               BufferSize(window_size))]
    /\ ReferenceUntouched
    /\ UNCHANGED <<config, current_features, current_predictions, drift_log,
                   clock, n_obs, read, last, irregular, crossings, overlaps,
                   samples, elsewhere>>

\* Lines 331-334, the assignment to self.current_predictions.
ThreadStorePredictions(t) ==
    /\ At(t, "store")
    /\ current_predictions' = threads[t].kept
    /\ threads' = [threads EXCEPT ![t].pc = "idle", ![t].kept = <<>>]
    /\ ReferenceUntouched
    /\ UNCHANGED <<config, current_features, drift_log, clock, n_obs, read,
                   last, irregular, crossings, overlaps,
                   samples, elsewhere>>

ConcurrentNext ==
    \E t \in Threads :
        \/ Enter(t)
        \/ ThreadAppendFeatures(t)
        \/ ThreadAppendPrediction(t)
        \/ ThreadTestReady(t)
        \/ ThreadScore(t)
        \/ ThreadResetFeatures(t)
        \/ ThreadSlicePredictions(t)
        \/ ThreadStorePredictions(t)

\* A detector with reference data for both features and the local metrics
\* store.
ConcurrentInit ==
    /\ Init
    /\ metrics_store = "local"
    /\ reference_file.name = "two_cols"

ConcurrentSpec == ConcurrentInit /\ [][ConcurrentNext]_vars

------------------------------------------------------------------------------
(* _calculate_distribution_drift applied to samples of one distribution *)

\* The caller holds a reference sample and a current sample.
DrawSamples(pair) ==
    /\ samples' = [reference_values |-> pair.reference_values,
                   current_values |-> pair.current_values,
                   computed |-> FALSE,
                   drift_score |-> [num |-> 0, den |-> 1]]
    /\ ReferenceUntouched
    /\ UNCHANGED <<config, run, callers, elsewhere>>

\* The call of _calculate_distribution_drift on them.
CalculateDrift ==
    /\ samples.reference_values # {} /\ ~samples.computed
    /\ samples' = [samples EXCEPT
                      !.computed = TRUE,
                      !.drift_score =
                          DistributionDriftScore(samples.reference_values,
                                                 samples.current_values)]
    /\ ReferenceUntouched
    /\ UNCHANGED <<config, run, callers, elsewhere>>

DriftScoreNext ==
    \/ \E pair \in SamplePairs : DrawSamples(pair)
    \/ CalculateDrift

\* Any detector: the function reads nothing of it.
DriftScoreInit ==
    /\ Init
    /\ window_size = 10
    /\ metrics_store = "local"
    /\ reference_file.name = "two_cols"

DriftScoreSpec == DriftScoreInit /\ [][DriftScoreNext]_vars

------------------------------------------------------------------------------
(* detect_drift on buffers of detectors with large windows *)

\* Window sizes on both sides of 1000, where window_size // 10 reaches the
\* cap of 100.
LargeWindowSizes == {10, 20, 1000, 1100}

\* Buffer lengths around the retained tail, up to one short of the window.
LengthsAround(ws) ==
    {n \in {0, 1, BufferSize(ws) - 1, BufferSize(ws), BufferSize(ws) + 1,
            BufferSize(ws) + 2, ws - 1} : n >= 0 /\ n < ws}

\* A detector that has accumulated less than a window without any drift
\* check: f2 was given in every observation, f1 only in the latest ones.
LargeWindowInit ==
    /\ window_size \in LargeWindowSizes
    /\ metrics_store \in MetricsStores
    /\ reference_file \in {file \in ReferenceFiles : file.name = "two_cols"}
    /\ LET loaded == LoadReferenceData(reference_file)
       IN  /\ reference_features = loaded.reference_features
           /\ reference_predictions = loaded.reference_predictions
           /\ isolation_forest = loaded.isolation_forest
    /\ n_obs \in LengthsAround(window_size)
    /\ current_predictions = Arrivals(0, n_obs)
    /\ \E k \in LengthsAround(window_size) :
          /\ k <= n_obs
          /\ current_features = [f \in Features |->
                                    IF f = "f1" THEN Arrivals(n_obs - k, n_obs)
                                    ELSE Arrivals(0, n_obs)]
    /\ drift_log = <<>>
    /\ clock = 0
    /\ read = {}
    /\ last = [op |-> "add_observation", features |-> NumericObservation,
               raised |-> FALSE, returned |-> "None", checks |-> <<>>,
               charts |-> NoCharts, fail_at |-> "none", ground_truth |-> "None"]
    /\ irregular = FALSE
    /\ threads = [t \in Threads |-> [pc |-> "idle", value |-> 0, kept |-> <<>>]]
    /\ crossings = 0
    /\ overlaps = 0
    /\ samples = NoSamples
    /\ DeployerIdle
    /\ ApiIdle
    /\ DagRunInit

LargeWindowNext == \E env \in Envs : CallDetectDrift(env)

LargeWindowSpec == LargeWindowInit /\ [][LargeWindowNext]_vars

------------------------------------------------------------------------------
(* The calls of the model deployer *)

\* The drift detector, which the deployer does not touch.
detector == <<config, reference_features, reference_predictions,
              isolation_forest, run, callers, samples>>

\* The serving API and the pipeline run.
serving == <<api_config, loaded_models, store_reads, served>>
dag_run == <<task_state, task_tries, xcom, started>>

outside_deployer == <<detector, serving, dag_run>>

\* A call of the deployer as it starts.
Call(op, model_name) ==
    [NoCall EXCEPT !.op = op, !.model_name = model_name,
                   !.before = [config |-> deployer_config, file |-> config_file]]

\* _save_config: copy the file to the backup (a failure is logged and
\* swallowed), then write the configuration to the file (a failure is
\* raised).
SaveConfig(cfg, file, backup, env) ==
    [file |-> IF env.write_ok THEN cfg ELSE file,
     backup |-> IF env.backup_ok THEN file ELSE backup,
     raised |-> ~env.write_ok]

\* validate_model without validation data: the model is configured, has a
\* run_id, and loads from the tracking server.
ValidateModel(cfg, model_name, env) ==
    /\ cfg.models[model_name] # "absent"
    /\ cfg.models[model_name] = "mlflow"
    /\ env.mlflow_ok

\* set_default_model: the configuration, the files and the outcome it leaves.
SetDefaultModel(cfg, file, backup, model_name, env) ==
    IF cfg.models[model_name] = "absent"
    THEN [config |-> cfg, file |-> file, backup |-> backup, returned |-> "False"]
    ELSE LET set == [cfg EXCEPT !.default_model = model_name]
             saved == SaveConfig(set, file, backup, env)
         IN  [config |-> set, file |-> saved.file, backup |-> saved.backup,
              returned |-> IF saved.raised THEN "raised" ELSE "True"]

\* ModelDeployer(config_path): a new process reads the configuration file.
Construct ==
    /\ deployment.pc = "done"
    /\ deployer_config' = config_file
    /\ deployment' = [NoCall EXCEPT !.before = [config |-> config_file,
                                                file |-> config_file]]
    /\ UNCHANGED <<config_file, config_backup, outside_deployer>>

\* register_model: get_run raises for a run the tracking server does not
\* give; otherwise the entry is written, whatever was there, and saved.
RegisterModel(model_name, env) ==
    /\ deployment.pc = "done"
    /\ LET call == Call("register_model", model_name)
           registered == [deployer_config EXCEPT !.models[model_name] = "mlflow"]
           saved == SaveConfig(registered, config_file, config_backup, env)
       IN  IF ~env.mlflow_ok
           THEN /\ deployment' = [call EXCEPT !.returned = "raised"]
                /\ UNCHANGED <<deployer_config, config_file, config_backup>>
           ELSE /\ deployer_config' = registered
                /\ config_file' = saved.file
                /\ config_backup' = saved.backup
                /\ deployment' = [call EXCEPT !.returned =
                                     IF saved.raised THEN "raised" ELSE "model_config"]
    /\ UNCHANGED outside_deployer

\* validate_model called on its own.
CallValidateModel(model_name, env) ==
    /\ deployment.pc = "done"
    /\ deployment' = [Call("validate_model", model_name) EXCEPT !.returned =
                         IF ValidateModel(deployer_config, model_name, env)
                         THEN "True" ELSE "False"]
    /\ UNCHANGED <<deployer_config, config_file, config_backup, outside_deployer>>

\* set_default_model called on its own.
CallSetDefaultModel(model_name, env) ==
    /\ deployment.pc = "done"
    /\ LET set == SetDefaultModel(deployer_config, config_file, config_backup,
                                  model_name, env)
       IN  /\ deployer_config' = set.config
           /\ config_file' = set.file
           /\ config_backup' = set.backup
           /\ deployment' = [Call("set_default_model", model_name)
                                EXCEPT !.returned = set.returned]
    /\ UNCHANGED outside_deployer

\* deploy_model up to the health check: validation, the default model, the
\* restart (a placeholder that only logs).  With restart_server and a
\* server_url it goes on to _check_server_health with the default budget,
\* unless importing requests raises, which the except clause of line 286
\* turns into False.
DeployModel(model_name, set_as_default, restart_server, server_url, env) ==
    /\ deployment.pc = "done"
    /\ LET call == [Call("deploy_model", model_name) EXCEPT
                       !.set_as_default = set_as_default,
                       !.restart_server = restart_server,
                       !.server_url = server_url,
                       !.max_retries = MaxRetries]
           set == IF set_as_default
                  THEN SetDefaultModel(deployer_config, config_file,
                                       config_backup, model_name, env)
                  ELSE [config |-> deployer_config, file |-> config_file,
                        backup |-> config_backup, returned |-> "True"]
       IN  IF ~ValidateModel(deployer_config, model_name, env)
           THEN /\ deployment' = [call EXCEPT !.returned = "False"]
                /\ UNCHANGED <<deployer_config, config_file, config_backup>>
           ELSE /\ deployer_config' = set.config
                /\ config_file' = set.file
                /\ config_backup' = set.backup
                /\ deployment' =
                      IF set.returned # "True"
                      THEN [call EXCEPT !.returned = set.returned]
                      ELSE IF restart_server /\ server_url
                      THEN IF env.requests_ok
                           THEN [call EXCEPT !.pc = "health"]
                           ELSE [call EXCEPT !.health = "raised",
                                             !.returned = "False"]
                      ELSE [call EXCEPT !.returned = "True"]
    /\ UNCHANGED outside_deployer

\* _check_server_health called on its own, with any budget.
CheckServerHealth(max_retries, env) ==
    /\ deployment.pc = "done"
    /\ deployment' =
          IF env.requests_ok
          THEN [Call("_check_server_health", "None") EXCEPT
                   !.pc = "health", !.server_url = TRUE,
                   !.max_retries = max_retries]
          ELSE [Call("_check_server_health", "None") EXCEPT
                   !.server_url = TRUE, !.max_retries = max_retries,
                   !.health = "raised", !.returned = "raised"]
    /\ UNCHANGED <<deployer_config, config_file, config_backup, outside_deployer>>

\* for i in range(max_retries)
MoreAttempts_OneMore(attempts, max_retries) == attempts <= max_retries
MoreAttempts(attempts, max_retries) == attempts < max_retries

\* What the caller makes of the health check: deploy_model drops the value
\* it returns (line 284) and answers False to an exception (line 288).
HealthChecked(call, health) ==
    [call EXCEPT !.pc = "done", !.health = health,
                 !.returned = IF call.op = "deploy_model"
                              THEN IF health = "raised" THEN "False" ELSE "True"
                              ELSE health]

\* One iteration of the loop: a request, and the sleep if it goes on.
HealthAttempt(outcome) ==
    /\ deployment.pc = "health"
    /\ MoreAttempts(deployment.attempts, deployment.max_retries)
    /\ LET sent == [deployment EXCEPT !.attempts = @ + 1,
                                      !.seen = @ \cup {outcome}]
       IN  deployment' =
              CASE outcome = "healthy" -> HealthChecked(sent, "True")
                [] outcome = "malformed" -> HealthChecked(sent, "raised")
                [] OTHER -> sent
    /\ UNCHANGED <<deployer_config, config_file, config_backup, outside_deployer>>

\* The loop is over: return False.
HealthExhausted ==
    /\ deployment.pc = "health"
    /\ ~MoreAttempts(deployment.attempts, deployment.max_retries)
    /\ deployment' = HealthChecked(deployment, "False")
    /\ UNCHANGED <<deployer_config, config_file, config_backup, outside_deployer>>

HealthStep ==
    \/ \E outcome \in HealthOutcomes : HealthAttempt(outcome)
    \/ HealthExhausted

DeployNext ==
    \/ Construct
    \/ \E model_name \in DeployableModels, env \in DeployEnvs :
          RegisterModel(model_name, env)
    \/ \E model_name \in DeployableModels, env \in DeployEnvs :
          CallValidateModel(model_name, env)
    \/ \E model_name \in DeployableModels, env \in DeployEnvs :
          CallSetDefaultModel(model_name, env)
    \/ \E model_name \in DeployableModels, set_as_default \in BOOLEAN,
          restart_server \in BOOLEAN, server_url \in BOOLEAN,
          env \in DeployEnvs :
          DeployModel(model_name, set_as_default, restart_server, server_url, env)
    \/ \E max_retries \in RetryBudgets, env \in DeployEnvs :
          CheckServerHealth(max_retries, env)
    \/ \E outcome \in HealthOutcomes : HealthAttempt(outcome)
    \/ HealthExhausted

\* A deployer, next to a detector that stays as constructed.
DeployInit ==
    /\ DetectorInit
    /\ window_size = 10
    /\ metrics_store = "local"
    /\ reference_file.name = "two_cols"
    /\ DeployerInit
    /\ ApiIdle
    /\ DagRunInit

DeploySpec == DeployInit /\ [][DeployNext]_vars

\* Each request times out and each sleep ends, so a health check that has
\* started takes its next step.
DeployFairSpec == DeploySpec /\ WF_vars(HealthStep)

------------------------------------------------------------------------------
(* The calls of the serving API *)

outside_serving == <<detector, deployer, dag_run>>

\* No handler is started once a model has been read this many times.
MaxStoreReads == 3

\* The entry has what its type needs: the branches of lines 133-152 that
\* reach the backing store.
Loadable(entry) == entry \in {"mlflow", "pickle"}

\* load_model: the cache and the read counts it leaves, its outcome
\* ("cached", "read", "not_found", "error"), the status of the HTTPException
\* it raises (0 if none) and the object it returns.  store_ok: the backing
\* store gives the model when asked.
LoadModel_NoCache(cache, reads, cfg, model_name, store_ok) ==
    IF cfg.models[model_name] = "absent"
    THEN [cache |-> cache, reads |-> reads, outcome |-> "not_found",
          load_status |-> 404, object |-> NoModel]
    ELSE IF Loadable(cfg.models[model_name]) /\ store_ok
    THEN LET model == [model |-> model_name, read |-> reads[model_name] + 1]
         IN  [cache |-> [cache EXCEPT ![model_name] = model],
              reads |-> [reads EXCEPT ![model_name] = @ + 1],
              outcome |-> "read", load_status |-> 0, object |-> model]
    ELSE [cache |-> cache, reads |-> reads, outcome |-> "error",
          load_status |-> 500, object |-> NoModel]

LoadModel(cache, reads, cfg, model_name, store_ok) ==
    IF cache[model_name] # NoModel
    THEN [cache |-> cache, reads |-> reads, outcome |-> "cached",
          load_status |-> 0, object |-> cache[model_name]]
    ELSE IF cfg.models[model_name] = "absent"
    THEN [cache |-> cache, reads |-> reads, outcome |-> "not_found",
          load_status |-> 404, object |-> NoModel]
    ELSE IF Loadable(cfg.models[model_name]) /\ store_ok
    THEN LET model == [model |-> model_name, read |-> reads[model_name] + 1]
         IN  [cache |-> [cache EXCEPT ![model_name] = model],
              reads |-> [reads EXCEPT ![model_name] = @ + 1],
              outcome |-> "read", load_status |-> 0, object |-> model]
    ELSE [cache |-> cache, reads |-> reads, outcome |-> "error",
          load_status |-> 500, object |-> NoModel]

\* What load_model ends with: 0 for a return, or the status it raises.
LoadStatuses == {0, 404, 500}

\* A handler that calls load_model(model_name) and answers with the status
\* that respond gives for what load_model ended with.
Handle(op, model_name, store_ok, respond) ==
    LET load == LoadModel(loaded_models, store_reads, api_config, model_name,
                          store_ok)
    IN  /\ loaded_models' = load.cache
        /\ store_reads' = load.reads
        /\ served' = [op |-> op, model_name |-> model_name,
                      outcome |-> load.outcome,
                      load_status |-> load.load_status,
                      status |-> respond[load.load_status], object |-> load.object]

\* A handler that answers without calling load_model.
Answer(op, status) ==
    /\ served' = [NoRequest EXCEPT !.op = op, !.status = status]
    /\ UNCHANGED <<loaded_models, store_reads>>

Serving ==
    /\ served.op # "import"
    /\ \A m \in ServedModels : store_reads[m] < MaxStoreReads

\* startup_event: preload the default model; a failure is logged.
StartupEvent(store_ok) ==
    /\ served.op = "import"
    /\ IF api_config.default_model # "None"
       THEN Handle("startup_event", api_config.default_model, store_ok,
                   [s \in LoadStatuses |-> 0])
       ELSE Answer("startup_event", 0)
    /\ UNCHANGED <<api_config, outside_serving>>

\* POST /predict: 400 without a model name; the HTTPException of load_model
\* as it is; 500 if the transformer or the model fails; else 200.
Predict(model, store_ok, predict_ok) ==
    /\ Serving
    /\ LET model_name == IF model # "None" THEN model
                         ELSE api_config.default_model
       IN  IF model_name = "None"
           THEN Answer("predict", 400)
           ELSE Handle("predict", model_name, store_ok,
                       [s \in LoadStatuses |->
                           IF s # 0 THEN s ELSE IF predict_ok THEN 200 ELSE 500])
    /\ UNCHANGED <<api_config, outside_serving>>

\* GET /health: 500 for any exception of load_model, else 200.
HealthCheck(store_ok) ==
    /\ Serving
    /\ IF api_config.default_model # "None"
       THEN Handle("health_check", api_config.default_model, store_ok,
                   [s \in LoadStatuses |-> IF s = 0 THEN 200 ELSE 500])
       ELSE Answer("health_check", 200)
    /\ UNCHANGED <<api_config, outside_serving>>

\* get_default_model: 500 without a default model, else load_model.
GetDefaultModel(store_ok) ==
    /\ Serving
    /\ IF api_config.default_model # "None"
       THEN Handle("get_default_model", api_config.default_model, store_ok,
                   [s \in LoadStatuses |-> s])
       ELSE Answer("get_default_model", 500)
    /\ UNCHANGED <<api_config, outside_serving>>

ApiNext ==
    \/ \E store_ok \in BOOLEAN : StartupEvent(store_ok)
    \/ \E model \in ServedModels \cup {"None"}, store_ok \in BOOLEAN,
          predict_ok \in BOOLEAN : Predict(model, store_ok, predict_ok)
    \/ \E store_ok \in BOOLEAN : HealthCheck(store_ok)
    \/ \E store_ok \in BOOLEAN : GetDefaultModel(store_ok)

\* The serving API, next to a detector that stays as constructed.
ServingInit ==
    /\ DetectorInit
    /\ window_size = 10
    /\ metrics_store = "local"
    /\ reference_file.name = "two_cols"
    /\ DeployerIdle
    /\ ApiInit
    /\ DagRunInit

ServingSpec == ServingInit /\ [][ApiNext]_vars

------------------------------------------------------------------------------
(* A run of the pipeline.  The scheduler starts a task instance when its
   trigger rule allows and marks it upstream_failed when it cannot be met;
   a failed try is retried default_args["retries"] times.  The deploy task
   works on the deployer's configuration. *)

outside_dag == <<detector, serving>>

\* The dependencies of lines 316-323.
Upstream(t) ==
    CASE t = "data_validation_sensor" -> {}
      [] t = "ingest_data" -> {"data_validation_sensor"}
      [] t = "feature_engineering" -> {"ingest_data"}
      [] t = "train_model" -> {"feature_engineering"}
      [] t = "evaluate_model" -> {"train_model"}
      [] t = "deploy_model" -> {"evaluate_model"}
      [] t = "setup_monitoring" -> {"deploy_model"}
      [] t = "deployment_notification" -> {"deploy_model", "setup_monitoring"}

\* all_success is the default trigger rule; the notification has ALL_DONE.
TriggerRuleOf(t) ==
    IF t = "deployment_notification" THEN "all_done" ELSE "all_success"

\* The states in which a task instance is done.
Finished == {"success", "failed", "upstream_failed"}

Triggered(t) ==
    IF TriggerRuleOf(t) = "all_done"
    THEN \A u \in Upstream(t) : task_state[u] \in Finished
    ELSE \A u \in Upstream(t) : task_state[u] = "success"

\* The threshold 0.8 on the accuracy, in percent.
DeployThreshold == 80

\* metrics.get("accuracy", 0) >= 0.8
ShouldDeploy_Always(metrics) == TRUE
ShouldDeploy(metrics) ==
    (IF metrics.has_accuracy THEN metrics.accuracy ELSE 0) >= DeployThreshold

\* The state of a task instance whose try has ended.
Ended(t, ok) ==
    task_state' = [task_state EXCEPT ![t] =
                      IF ok THEN "success"
                      ELSE IF task_tries[t] <= Retries THEN "up_for_retry"
                      ELSE "failed"]

\* The scheduler starts a try of a task; what the task pushed in an earlier
\* try is cleared.
StartTask(t) ==
    /\ task_state[t] \in {"none", "up_for_retry"}
    /\ Triggered(t)
    /\ task_state' = [task_state EXCEPT ![t] = "running"]
    /\ task_tries' = [task_tries EXCEPT ![t] = @ + 1]
    /\ started' = IF t \in Range(started) THEN started ELSE Append(started, t)
    /\ xcom' = CASE t = "evaluate_model" ->
                      [xcom EXCEPT !.evaluated = FALSE, !.should_deploy = FALSE,
                                   !.metrics = NoXcom.metrics]
                 [] t = "deploy_model" ->
                      [xcom EXCEPT !.deployment_success = "None"]
                 [] OTHER -> xcom
    /\ UNCHANGED <<deployer, outside_dag>>

\* The scheduler gives up a task whose upstream failed.
FailUpstream(t) ==
    /\ task_state[t] = "none"
    /\ TriggerRuleOf(t) = "all_success"
    /\ \E u \in Upstream(t) : task_state[u] \in {"failed", "upstream_failed"}
    /\ task_state' = [task_state EXCEPT ![t] = "upstream_failed"]
    /\ UNCHANGED <<task_tries, xcom, started, deployer, outside_dag>>

\* The sensor, _ingest_data, _feature_engineering, _train_model and
\* _setup_monitoring: the try succeeds or raises.
RunTask(t, ok) ==
    /\ t \in {"data_validation_sensor", "ingest_data", "feature_engineering",
              "train_model", "setup_monitoring"}
    /\ task_state[t] = "running"
    /\ Ended(t, ok)
    /\ UNCHANGED <<task_tries, xcom, started, deployer, outside_dag>>

\* _evaluate_model: evaluate() raises, or should_deploy and the metrics are
\* pushed and then the report is written or raises.
EvaluateModel(evaluate_ok, metrics, report_ok) ==
    /\ task_state["evaluate_model"] = "running"
    /\ xcom' = IF evaluate_ok
               THEN [xcom EXCEPT !.evaluated = TRUE,
                                 !.should_deploy = ShouldDeploy(metrics),
                                 !.metrics = metrics]
               ELSE xcom
    /\ Ended("evaluate_model", evaluate_ok /\ report_ok)
    /\ UNCHANGED <<task_tries, started, deployer, outside_dag>>

\* _deploy_model.  Without should_deploy it raises at once.  Otherwise a
\* deployer is constructed from the configuration file (deployer_ok: the
\* import and the constructor succeed), the model is registered, validated
\* on the validation data (validation_ok: the data is read and predicted),
\* and deployed as default with a restart and no server_url; the task
\* raises if one of these raises or the validation fails, and otherwise
\* pushes what deploy_model returned.
DeployTask(deployer_ok, validation_ok, env) ==
    /\ task_state["deploy_model"] = "running"
    /\ LET model_name == "m1"
           registered == [config_file EXCEPT !.models[model_name] = "mlflow"]
           saved == SaveConfig(registered, config_file, config_backup, env)
           valid == ValidateModel(registered, model_name, env)
           set == SetDefaultModel(registered, saved.file, saved.backup,
                                  model_name, env)
           call == [Call("deploy_model", model_name) EXCEPT
                       !.set_as_default = TRUE, !.restart_server = TRUE,
                       !.max_retries = MaxRetries]
       IN  IF ~(xcom.evaluated /\ xcom.should_deploy) \/ ~deployer_ok
           THEN /\ Ended("deploy_model", FALSE)
                /\ UNCHANGED <<xcom, deployer>>
           ELSE IF ~env.mlflow_ok
           THEN /\ Ended("deploy_model", FALSE)
                /\ deployer_config' = config_file
                /\ deployment' = [Call("register_model", model_name) EXCEPT
                                     !.returned = "raised"]
                /\ UNCHANGED <<xcom, config_file, config_backup>>
           ELSE IF saved.raised \/ ~(valid /\ validation_ok)
           THEN /\ Ended("deploy_model", FALSE)
                /\ deployer_config' = registered
                /\ config_file' = saved.file
                /\ config_backup' = saved.backup
                /\ deployment' =
                      IF saved.raised
                      THEN [Call("register_model", model_name) EXCEPT
                               !.returned = "raised"]
                      ELSE [Call("validate_model", model_name) EXCEPT
                               !.returned = "False"]
                /\ UNCHANGED xcom
           ELSE /\ Ended("deploy_model", set.returned # "raised")
                /\ deployer_config' = set.config
                /\ config_file' = set.file
                /\ config_backup' = set.backup
                /\ deployment' = [call EXCEPT !.returned = set.returned]
                /\ xcom' = IF set.returned = "raised" THEN xcom
                           ELSE [xcom EXCEPT !.deployment_success = set.returned]
    /\ UNCHANGED <<task_tries, started, outside_dag>>

\* The notification: its message is rendered from the metrics that
\* evaluate_model pushed, which fails when there are none, and sent.
Notify(slack_ok) ==
    /\ task_state["deployment_notification"] = "running"
    /\ Ended("deployment_notification", xcom.evaluated /\ slack_ok)
    /\ UNCHANGED <<task_tries, xcom, started, deployer, outside_dag>>

DagNext ==
    \/ \E t \in TaskIds : StartTask(t)
    \/ \E t \in TaskIds : FailUpstream(t)
    \/ \E t \in TaskIds, ok \in BOOLEAN : RunTask(t, ok)
    \/ \E evaluate_ok \in BOOLEAN, metrics \in Metrics, report_ok \in BOOLEAN :
          EvaluateModel(evaluate_ok, metrics, report_ok)
    \/ \E deployer_ok \in BOOLEAN, validation_ok \in BOOLEAN, env \in DeployEnvs :
          DeployTask(deployer_ok, validation_ok, env)
    \/ \E slack_ok \in BOOLEAN : Notify(slack_ok)

\* A run, and the configuration file the deploy task will find.
DagInit ==
    /\ DetectorInit
    /\ window_size = 10
    /\ metrics_store = "local"
    /\ reference_file.name = "two_cols"
    /\ DeployerInit
    /\ ApiIdle
    /\ DagRunInit

DagSpec == DagInit /\ [][DagNext]_vars

\* Every try ends (the sensor has a timeout) and the scheduler goes on
\* scheduling.
DagFairSpec == DagSpec /\ WF_vars(DagNext)

------------------------------------------------------------------------------
(* Properties *)

\* The drift checks the last call ran, and the last of them.
Ran == Len(last.checks) > 0
FinalCheck == last.checks[Len(last.checks)]

\* The buffer as add_observation left it after its appends, before any
\* drift check it went on to run.
Appended ==
    IF Ran THEN last.checks[1].snapshot
    ELSE [features |-> current_features, predictions |-> current_predictions]

\* C1: after the trim that ends a drift check, the prediction sequence and
\* every per-feature sequence hold at most min(100, window_size // 10)
\* elements, for every window_size >= 1.
C1_TrimBound ==
    (Ran /\ FinalCheck.trimmed) =>
        /\ Len(current_predictions) <= Min(100, window_size \div 10)
        /\ \A f \in DOMAIN current_features :
              Len(current_features[f]) <= Min(100, window_size \div 10)

\* C2: add_observation runs a drift check if and only if its append brings
\* the prediction sequence to window_size elements, and after the trim of
\* that check the prediction sequence is shorter than window_size.
C2_ReadyExactlyAtWindow ==
    last.op = "add_observation" =>
        /\ Ran <=> Len(Appended.predictions) = window_size
        /\ Ran => Len(current_predictions) < window_size

\* C3: neither the prediction sequence nor any per-feature sequence ever
\* holds more than window_size elements.
C3_BufferBounded ==
    /\ Len(current_predictions) <= window_size
    /\ \A f \in DOMAIN current_features :
          Len(current_features[f]) <= window_size


\* C4: add_observation appends each numeric feature value exactly once to
\* the end of the sequence of its feature (created if the name is new),
\* appends nothing for a non-numeric value, leaves the sequences of absent
\* features unchanged, and appends the prediction exactly once.
C4_AppendOnce ==
    [][n_obs' = n_obs + 1 =>
        LET obs == last'.features
            after == IF Len(last'.checks) > 0
                     THEN last'.checks[1].snapshot
                     ELSE [features |-> current_features',
                           predictions |-> current_predictions']
        IN  /\ after.predictions = Append(current_predictions, n_obs')
            /\ DOMAIN after.features \subseteq Features
            /\ \A f \in Features :
                  IF f \in DOMAIN obs /\ obs[f] \in {"int", "float"}
                  THEN /\ f \in DOMAIN after.features
                       /\ after.features[f] =
                             IF f \in DOMAIN current_features
                             THEN Append(current_features[f], n_obs')
                             ELSE <<n_obs'>>
                  ELSE /\ f \in DOMAIN after.features <=> f \in DOMAIN current_features
                       /\ f \in DOMAIN current_features =>
                             after.features[f] = current_features[f]
    ]_vars

\* C4 witness: the first observation gave a non-numeric value for a feature
\* that has a sequence and a numeric value for a name that had none.
C4_Witness ==
    /\ last.op = "add_observation" /\ n_obs = 1
    /\ reference_file.name = "one_col"
    /\ last.features = [f1 |-> "str", f2 |-> "float"]
    /\ Appended.features = [f1 |-> <<>>, f2 |-> <<1>>]
    /\ Appended.predictions = <<1>>

\* C5: the prediction window a drift check scores is the tail the previous
\* trim retained followed by every prediction appended since, each once and
\* in arrival order; no observation leaves the buffer before a drift check
\* has read it.
C5_NoLossNoDoubleCount ==
    /\ [](/\ current_predictions =
                Arrivals(n_obs - Len(current_predictions), n_obs)
          /\ \A id \in 1..n_obs : id \in Range(current_predictions) \/ id \in read
          /\ \A i \in 1..Len(last.checks) :
                LET c == last.checks[i]
                    score == c.returned.prediction_drift
                IN  /\ c.snapshot.predictions =
                          Arrivals(n_obs - Len(c.snapshot.predictions), n_obs)
                    /\ score.computed => score.current = c.snapshot.predictions)
    /\ [][Len(last'.checks) > 0 =>
            last'.checks[1].snapshot.predictions =
                current_predictions \o Arrivals(n_obs, n_obs')]_vars

\* C5 witness: a second check fired by add_observation scored the retained
\* tail followed by the nine predictions appended since.
C5_Witness ==
    /\ last.op = "add_observation" /\ Ran /\ clock = 2
    /\ window_size = 10
    /\ FinalCheck.returned.prediction_drift.computed
    /\ FinalCheck.returned.prediction_drift.current = Arrivals(9, 19)
    /\ current_predictions = <<19>>

\* C6: add_observation and detect_drift return normally for every
\* observation input and every failure of the statistical test, the anomaly
\* scoring, the metrics push and the log write.
C6_NoExceptionEscapes ==
    last.op \in {"add_observation", "detect_drift"} =>
        /\ ~last.raised
        /\ \A i \in 1..Len(last.checks) : ~last.checks[i].raised

\* C6 witness: a drift check fired by an observation with a non-numeric
\* value ran while the test, the scoring, the push and the log write failed.
C6_Witness ==
    /\ last.op = "add_observation" /\ Ran
    /\ \E f \in DOMAIN last.features : last.features[f] = "str"
    /\ metrics_store = "prometheus" /\ isolation_forest = "fitted"
    /\ FinalCheck.env = [ks_fails |-> TRUE, anomaly_fails |-> TRUE,
                         push_fails |-> TRUE, log_fails |-> TRUE]
    /\ ~last.raised

\* The reference file was given and could not be read.
LoadFailed == reference_file.given /\ ~reference_file.readable

\* C7 as claimed: a reference file that cannot be read is fatal at
\* initialization, so no detector accumulates observations after it.
C7_LoadFailureIsFatal ==
    LoadFailed => (last.op = "__init__" /\ n_obs = 0 /\ clock = 0)

\* C7 amended: a reference file that cannot be read is not fatal: the
\* detector is constructed with empty reference series and no anomaly
\* model, and its drift checks return reports without feature, prediction
\* or anomaly scores.
C7_LoadFailureIsSwallowed ==
    LoadFailed =>
        /\ DOMAIN reference_features = {}
        /\ reference_predictions = <<>>
        /\ isolation_forest = "None"
        /\ ~last.raised
        /\ \A i \in 1..Len(last.checks) :
              LET c == last.checks[i]
              IN  /\ ~c.raised
                  /\ c.returned.timestamp > 0
                  /\ DOMAIN c.returned.feature_drift = {}
                  /\ c.returned.prediction_drift = ZeroScore
                  /\ c.returned.anomaly_score = ZeroAnomaly

\* C7 witness: after a failed load the detector accumulated a full window
\* and ran a drift check on it.
C7_Witness ==
    /\ LoadFailed
    /\ last.op = "add_observation" /\ Ran
    /\ Len(FinalCheck.snapshot.predictions) = window_size
    /\ window_size = 10


\* The features a drift check can score: those of its window that are in
\* the reference data and hold at least one value.
Scorable(c) ==
    {f \in DOMAIN c.snapshot.features :
        f \in DOMAIN reference_features /\ Len(c.snapshot.features[f]) > 0}

\* The feature and prediction scores of a check's report are the ones its
\* window allows: one per scorable feature, and the prediction score when
\* both prediction samples are non-empty, each computed on the window
\* unless the statistical test itself failed.
ScoresItCan(c) ==
    /\ DOMAIN c.returned.feature_drift = Scorable(c)
    /\ ~c.env.ks_fails =>
          /\ \A f \in Scorable(c) :
                /\ c.returned.feature_drift[f].computed
                /\ c.returned.feature_drift[f].current = c.snapshot.features[f]
          /\ (Len(reference_predictions) > 0 /\ Len(c.snapshot.predictions) > 0) =>
                /\ c.returned.prediction_drift.computed
                /\ c.returned.prediction_drift.current = c.snapshot.predictions

\* The buffer is what the trim makes of the window the final check read.
BufferTrimmed ==
    Ran =>
        LET w == FinalCheck.snapshot
            kept == ResetCurrentData(w.features, w.predictions, window_size)
        IN  /\ FinalCheck.trimmed
            /\ current_features = kept.current_features
            /\ current_predictions = kept.current_predictions

\* C8: with an untrained anomaly model (no reference data, a failed load or
\* a failed fit) every drift check reports anomaly_score 0.0, computes the
\* feature and prediction scores it can, trims the buffer and does not
\* raise.
C8_UntrainedAnomalyModel ==
    isolation_forest # "fitted" =>
        /\ \A i \in 1..Len(last.checks) :
              LET c == last.checks[i]
              IN  /\ ~c.raised
                  /\ c.trimmed
                  /\ c.returned.timestamp > 0
                  /\ c.returned.anomaly_score = ZeroAnomaly
                  /\ ScoresItCan(c)
        /\ BufferTrimmed
        /\ ~last.raised

\* C8 witness: after a failed fit, a check fired by add_observation scored
\* both features and the predictions, reported no anomaly score and trimmed
\* the window of ten to its tail.
C8_Witness ==
    /\ isolation_forest = "unfitted"
    /\ last.op = "add_observation" /\ Ran
    /\ DOMAIN FinalCheck.returned.feature_drift = {"f1", "f2"}
    /\ FinalCheck.returned.feature_drift["f1"].computed
    /\ FinalCheck.returned.feature_drift["f2"].computed
    /\ FinalCheck.returned.prediction_drift.computed
    /\ FinalCheck.returned.anomaly_score = ZeroAnomaly
    /\ Len(FinalCheck.snapshot.predictions) = 10
    /\ Len(current_predictions) = 1

\* C9: with a fitted anomaly model, features holding fewer than window_size
\* observations are left out of the anomaly matrix; if at least one
\* reference feature qualifies, the anomaly score is computed from the
\* qualifying subset, even a strict subset of the reference features; if
\* none qualifies the score stays 0.0; the check never raises.
C9_PartialWindowScored ==
    \A i \in 1..Len(last.checks) :
        LET c == last.checks[i]
            qualifying == {f \in DOMAIN c.snapshot.features :
                              Len(c.snapshot.features[f]) >= window_size}
        IN  (isolation_forest = "fitted" /\ ~c.env.anomaly_fails) =>
                /\ ~c.raised
                /\ (qualifying # {} /\ qualifying \subseteq DOMAIN reference_features) =>
                      /\ c.returned.anomaly_score.computed
                      /\ DOMAIN c.returned.anomaly_score.matrix = qualifying
                /\ qualifying = {} => c.returned.anomaly_score = ZeroAnomaly

\* The fields of a drift report.
ReportFields ==
    {"timestamp", "model_name", "model_version", "feature_drift",
     "prediction_drift", "concept_drift", "anomaly_score"}

\* C10: when the push to the gateway raises, detect_drift still returns a
\* complete report, still appends it to the drift log, still trims the
\* buffer, and no exception reaches the caller.
C10_PushFailureNotFatal ==
    /\ \A i \in 1..Len(last.checks) :
          LET c == last.checks[i]
          IN  (metrics_store = "prometheus" /\ c.env.push_fails) =>
                  /\ ~c.raised
                  /\ ~c.pushed
                  /\ DOMAIN c.returned = ReportFields
                  /\ c.returned.timestamp = clock - Len(last.checks) + i
                  /\ c.returned.model_name = ModelName
                  /\ c.returned.model_version = ModelVersion
                  /\ ScoresItCan(c)
                  /\ ~c.env.log_fails =>
                        /\ c.logged
                        /\ \E j \in 1..Len(drift_log) : drift_log[j] = c.returned
                  /\ c.trimmed
                  /\ ~last.raised
    /\ (Ran /\ metrics_store = "prometheus" /\ FinalCheck.env.push_fails) =>
          BufferTrimmed

\* C10 witness: a direct detect_drift call whose push failed returned a
\* report with a feature score, which is the last line of the drift log.
C10_Witness ==
    /\ metrics_store = "prometheus"
    /\ last.op = "detect_drift" /\ last.returned = "report" /\ Ran
    /\ FinalCheck.env.push_fails /\ ~FinalCheck.env.log_fails
    /\ "f1" \in DOMAIN FinalCheck.returned.feature_drift
    /\ FinalCheck.returned.feature_drift["f1"].computed
    /\ drift_log[Len(drift_log)] = FinalCheck.returned
    /\ window_size = 10
    /\ Len(FinalCheck.snapshot.predictions) > Len(current_predictions)

\* Small samples, the empty one among them.
Samples == {<<>>, <<1>>, <<1, 2>>}

\* C11: the distribution-drift computation returns 0.0 and does not raise
\* whenever the current sample is empty or the statistical test fails, for
\* the feature windows and for the prediction window alike: a drift check
\* whose test fails reports 0.0 for every feature it scores and for the
\* predictions, and a check on an empty prediction window reports 0.0.
C11_DegenerateDriftIsZero ==
    /\ \A reference_values \in Samples, current_values \in Samples, env \in Envs :
          (current_values = <<>> \/ env.ks_fails) =>
              CalculateDistributionDrift(reference_values, current_values, env)
                  = [raised |-> FALSE, score |-> ZeroScore]
    /\ \A i \in 1..Len(last.checks) :
          LET c == last.checks[i]
          IN  /\ ~c.raised
              /\ c.env.ks_fails =>
                    /\ \A f \in DOMAIN c.returned.feature_drift :
                          c.returned.feature_drift[f] = ZeroScore
                    /\ c.returned.prediction_drift = ZeroScore
              /\ c.snapshot.predictions = <<>> =>
                    c.returned.prediction_drift = ZeroScore

\* C11 witness: a check on a full window with reference data, during which
\* the statistical test failed, reported 0.0 for both features and for the
\* predictions and returned normally.
C11_Witness ==
    /\ last.op = "add_observation" /\ Ran
    /\ FinalCheck.env.ks_fails
    /\ reference_file.name = "two_cols"
    /\ Len(FinalCheck.snapshot.predictions) = window_size
    /\ DOMAIN FinalCheck.returned.feature_drift = {"f1", "f2"}
    /\ FinalCheck.returned.feature_drift["f1"] = ZeroScore
    /\ FinalCheck.returned.prediction_drift = ZeroScore
    /\ ~FinalCheck.raised

\* C12: after initialization the reference feature series, the reference
\* prediction series and the anomaly model are never changed: every
\* add_observation, detect_drift and generate_drift_report call leaves them
\* equal to their value at the end of construction.
C12_ReferenceNeverMutated ==
    /\ [](LET loaded == LoadReferenceData(reference_file)
          IN  /\ reference_features = loaded.reference_features
              /\ reference_predictions = loaded.reference_predictions
              /\ isolation_forest = loaded.isolation_forest)
    /\ [][/\ reference_features' = reference_features
          /\ reference_predictions' = reference_predictions
          /\ isolation_forest' = isolation_forest]_vars

\* C12 witness: after observations and drift checks, a report was rendered
\* (three more checks and the charts, which read the reference series), and
\* the reference data and the fitted model are those of the construction.
C12_Witness ==
    /\ last.op = "generate_drift_report" /\ last.returned = "path"
    /\ Len(last.checks) = 3 /\ last.charts.drawn
    /\ n_obs > 0 /\ clock > 3
    /\ reference_file.name = "two_cols"
    /\ reference_features = [c \in {"f1", "f2"} |-> ReferenceSeries]
    /\ reference_predictions = ReferenceSeries
    /\ isolation_forest = "fitted"

\* C13: the detector follows the Accumulating/Scoring state machine: a
\* scoring pass (detect_drift) runs only when the prediction sequence holds
\* at least window_size observations, and every scoring pass is followed by
\* exactly one trim before the next observation is accepted.
C13_ScoringOnlyWhenReady ==
    \A i \in 1..Len(last.checks) :
        LET c == last.checks[i]
        IN  /\ Len(c.snapshot.predictions) >= window_size
            /\ c.trimmed

\* C14: every drift check appends exactly one record, its report, to the
\* drift log when the log is writable, whatever metrics_store is configured,
\* and never rewrites or removes earlier records, so that the number of
\* records equals the number of drift checks whose write succeeded (all of
\* them when the log is always writable).
C14_OneRecordPerCheck ==
    /\ [](Len(drift_log) <= clock)
    /\ [][LET cs == last'.checks
              written == {i \in 1..Len(cs) : ~cs[i].env.log_fails}
          IN  /\ clock' = clock + Len(cs)
              /\ Len(drift_log') = Len(drift_log) + Cardinality(written)
              /\ SubSeq(drift_log', 1, Len(drift_log)) = drift_log
              /\ \A i \in written :
                    /\ cs[i].logged
                    /\ drift_log'[Len(drift_log)
                                  + Cardinality({j \in written : j <= i})]
                          = cs[i].returned
              /\ (Len(drift_log) = clock /\ written = 1..Len(cs)) =>
                    Len(drift_log') = clock'
         ]_vars

\* C14 witness: with the local metrics store, four drift checks (one fired
\* by add_observation, then three of a report) left four records, in the
\* order of the checks.
C14_Witness ==
    /\ metrics_store = "local"
    /\ last.op = "generate_drift_report" /\ Len(last.checks) = 3
    /\ clock = 4 /\ Len(drift_log) = 4
    /\ \A i \in 1..4 : drift_log[i].timestamp = i
    /\ drift_log[4] = FinalCheck.returned

\* C15: generate_drift_report never raises to the caller: if any step of
\* the rendering fails (opening the report file, a write, a drift check,
\* creating the charts directory, drawing a chart) it returns the empty
\* string, and it returns the report path only when the HTML file and all
\* the charts were written.
C15_ReportNeverRaises ==
    last.op = "generate_drift_report" =>
        /\ ~last.raised
        /\ last.returned \in {"", "path"}
        /\ (last.fail_at # "none" \/ \E i \in 1..Len(last.checks) : last.checks[i].raised)
              => last.returned = ""
        /\ last.returned = "path" =>
              /\ last.fail_at = "none"
              /\ Len(last.checks) = 3
              /\ last.charts.drawn

\* C15 witness: the report file was written with its three sections and
\* creating the charts directory failed: the call returned "".
C15_Witness ==
    /\ last.op = "generate_drift_report"
    /\ last.fail_at = "makedirs"
    /\ Len(last.checks) = 3
    /\ last.returned = "" /\ ~last.raised /\ ~last.charts.drawn

\* No prediction is lost: every observation whose prediction was appended
\* is in the buffer or was in a window a drift check read.
NoPredictionLost ==
    \A id \in 1..n_obs :
        \/ id \in Range(current_predictions)
        \/ id \in read
        \/ \E t \in Threads :
              threads[t].value = id /\ threads[t].pc \in {"features", "prediction"}

\* One drift check per crossing of window_size: never more checks than
\* crossings, and as many once every caller has returned.
OneCheckPerCrossing ==
    /\ clock <= crossings
    /\ (\A t \in Threads : At(t, "idle")) => clock = crossings

C17_SameDistributionScoresLow ==
    samples.computed => Below(samples.drift_score, DriftThreshold)

\* The last k elements of s in their order, for 1 <= k <= Len(s).
LastElements(s, k) == [i \in 1..k |-> s[Len(s) - k + i]]

\* What the claimed trim makes of one sequence.
TrimmedTo(s, b) == IF Len(s) > b THEN LastElements(s, b) ELSE <<>>

\* C18: for window_size >= 10 and b = min(100, window_size // 10), the trim
\* replaces every sequence longer than b by exactly its last b elements in
\* their arrival order and empties every sequence of length b or less (a
\* sequence holding exactly b elements is emptied, not kept).
C18_TrimKeepsTail ==
    (Ran /\ FinalCheck.trimmed /\ window_size >= 10) =>
        LET b == Min(100, window_size \div 10)
            before == FinalCheck.snapshot
        IN  /\ current_predictions = TrimmedTo(before.predictions, b)
            /\ DOMAIN current_features = DOMAIN before.features
            /\ \A f \in DOMAIN before.features :
                  current_features[f] = TrimmedTo(before.features[f], b)

\* C18 witness: with window_size 1100 (b capped at 100) a drift check read
\* 1099 predictions and f1 values of exactly 100 observations: the trim
\* kept the last 100 predictions and emptied f1.
C18_Witness ==
    /\ Ran /\ FinalCheck.trimmed
    /\ window_size = 1100
    /\ Len(FinalCheck.snapshot.predictions) = 1099
    /\ Len(FinalCheck.snapshot.features["f1"]) = 100
    /\ current_predictions = Arrivals(999, 1099)
    /\ current_features["f1"] = <<>>
    /\ current_features["f2"] = Arrivals(999, 1099)

\* C19: for window_size >= 10 the tail retained by a trim counts toward the
\* next window: in a run of add_observation calls the first drift check
\* fires at the window_size-th call and each next one exactly
\* window_size - min(100, window_size // 10) calls after the previous one,
\* on a window that begins with the retained tail, whose predictions are
\* thereby scored again.
C19_TailCountsTowardNextWindow ==
    [][(~irregular /\ window_size >= 10 /\ n_obs' = n_obs + 1) =>
          LET b == Min(100, window_size \div 10)
              fired == Len(last'.checks) > 0
          IN  /\ fired <=> /\ n_obs' >= window_size
                           /\ (n_obs' - window_size) % (window_size - b) = 0
              /\ fired =>
                    LET c == last'.checks[1]
                        window == c.snapshot.predictions
                        score == c.returned.prediction_drift
                    IN  /\ window = Arrivals(n_obs' - window_size, n_obs')
                        /\ score.computed => score.current = window
                        /\ current_predictions' = Arrivals(n_obs' - b, n_obs')
                        /\ clock >= 1 =>
                              /\ SubSeq(window, 1, b)
                                    = SubSeq(current_predictions, 1, b)
                              /\ \A i \in 1..b : window[i] \in read
      ]_vars

\* C19 witness: window_size 10; the checks fired at the 10th and the 19th
\* observation, and prediction 10, the tail the first trim retained, was
\* scored by both.
C19_Witness ==
    /\ window_size = 10 /\ n_obs = 19 /\ clock = 2
    /\ last.op = "add_observation" /\ Ran
    /\ Len(drift_log) = 2
    /\ drift_log[1].prediction_drift.computed
    /\ drift_log[2].prediction_drift.computed
    /\ drift_log[1].prediction_drift.current = Arrivals(0, 10)
    /\ drift_log[2].prediction_drift.current = Arrivals(9, 19)

\* C20: the feature_drift map of a report has an entry for a feature exactly
\* when that feature is in the reference data and its current window is
\* non-empty at the check: a reference feature with an empty window gets no
\* entry, and a feature that is accumulated but absent from the reference
\* is never scored although its sequence is still stored and trimmed.
C20_FeatureDriftEntries ==
    /\ \A i \in 1..Len(last.checks) :
          LET c == last.checks[i]
              window == c.snapshot.features
          IN  ~c.raised =>
                  \A f \in Features :
                      f \in DOMAIN c.returned.feature_drift
                          <=> /\ f \in DOMAIN reference_features
                              /\ f \in DOMAIN window
                              /\ Len(window[f]) > 0
    /\ DOMAIN reference_features \subseteq DOMAIN current_features
    /\ \A j \in 1..Len(drift_log) :
          DOMAIN drift_log[j].feature_drift \subseteq DOMAIN reference_features
    /\ (Ran /\ FinalCheck.trimmed) =>
          \A f \in DOMAIN FinalCheck.snapshot.features \ DOMAIN reference_features :
              /\ f \in DOMAIN current_features
              /\ current_features[f] =
                    (IF Len(FinalCheck.snapshot.features[f]) > BufferSize(window_size)
                     THEN PyTail(FinalCheck.snapshot.features[f], BufferSize(window_size))
                     ELSE <<>>)

\* C20 witness: f1 is in the reference data, f2 is not; of the three checks
\* of a report the first scored f1 and not the accumulated f2, and the
\* third, on windows the trims had emptied, scored nothing; f2 is still in
\* the buffer.
C20_Witness ==
    /\ reference_file.name = "one_col"
    /\ last.op = "generate_drift_report" /\ Len(last.checks) = 3
    /\ window_size = 10
    /\ DOMAIN last.checks[1].returned.feature_drift = {"f1"}
    /\ Len(last.checks[1].snapshot.features["f2"]) > 0
    /\ last.checks[3].snapshot.features["f1"] = <<>>
    /\ DOMAIN last.checks[3].returned.feature_drift = {}
    /\ "f2" \in DOMAIN current_features

\* C21: the feature drift scores, the prediction drift score and the
\* anomaly score written into one generated drift report are all computed
\* from the same observation window, the buffer content at the moment
\* generate_drift_report was called.
C21_ReportScoresOneWindow ==
    [][(last'.op = "generate_drift_report" /\ Len(last'.checks) = 3) =>
          \A i \in 1..3 :
              last'.checks[i].snapshot =
                  [features |-> current_features,
                   predictions |-> current_predictions]]_vars

\* C22: generate_drift_report is read-only with respect to the detector:
\* the prediction sequence and every per-feature sequence are the same
\* after the call as before it, and the distribution charts it draws show
\* the window the scores of the report were computed from.
C22_ReportIsReadOnly ==
    [][last'.op = "generate_drift_report" =>
          /\ current_predictions' = current_predictions
          /\ current_features' = current_features
          /\ last'.charts.drawn =>
                /\ last'.charts.predictions = last'.checks[1].snapshot.predictions
                /\ \A f \in DOMAIN last'.charts.features :
                      last'.charts.features[f] = last'.checks[1].snapshot.features[f]
      ]_vars

\* C23: in every reachable state, after any sequence of add_observation,
\* detect_drift and generate_drift_report calls and for any window_size,
\* each per-feature sequence is at most as long as the prediction sequence.
C23_FeatureNotLongerThanPredictions ==
    /\ \A f \in DOMAIN current_features :
          Len(current_features[f]) <= Len(current_predictions)
    /\ \A i \in 1..Len(last.checks) :
          \A f \in DOMAIN last.checks[i].snapshot.features :
              Len(last.checks[i].snapshot.features[f])
                  <= Len(last.checks[i].snapshot.predictions)

\* C23 witness: a drift check read a window in which f1 was shorter than
\* the predictions (an observation gave no numeric f1), and the trim left
\* one f1 value and one prediction.
C23_Witness ==
    /\ last.op = "add_observation" /\ Ran /\ FinalCheck.trimmed
    /\ window_size = 10
    /\ "f1" \in DOMAIN current_features
    /\ Len(FinalCheck.snapshot.features["f1"]) = 9
    /\ Len(FinalCheck.snapshot.predictions) = 10
    /\ Len(current_features["f1"]) = 1
    /\ Len(current_predictions) = 1

\* C24: when a drift check is fired by add_observation, every feature
\* admitted to the anomaly matrix (length >= window_size) was numeric in
\* every observation of the scored window, so that row i of each admitted
\* column holds the value from the same observation as the i-th prediction
\* of the window, also after trims and for features that were missing in
\* some observations of an earlier window.
C24_AnomalyRowsAligned ==
    (last.op = "add_observation" /\ Ran) =>
        LET window == FinalCheck.snapshot
        IN  \A f \in AnomalyColumns(window.features, window_size) :
                PyTail(window.features[f], window_size)
                    = PyTail(window.predictions, window_size)

C26_DeployedMeansHealthy ==
    (/\ deployment.op = "deploy_model" /\ deployment.pc = "done"
     /\ deployment.restart_server /\ deployment.server_url)
    => /\ deployment.returned = "True" => deployment.health = "True"
       /\ deployment.health = "False" => deployment.returned = "False"

\* C27: when deploy_model or set_default_model returns False, default_model
\* in memory and the saved configuration file are what they were before the
\* call; and default_model, in memory and in the file, is unset or names a
\* model of the configuration's models.
C27_FailedDeploymentKeepsDefault ==
    /\ (/\ deployment.op \in {"deploy_model", "set_default_model"}
        /\ deployment.pc = "done" /\ deployment.returned = "False")
       => /\ deployer_config.default_model = deployment.before.config.default_model
          /\ config_file = deployment.before.file
    /\ \A cfg \in {deployer_config, config_file} :
          cfg.default_model # "None" => cfg.models[cfg.default_model] # "absent"

\* C28: _check_server_health terminates.  It sends at most max_retries
\* requests; it goes on only while no response was healthy, and returns True
\* at the first response with status 200 and status field "healthy"; when
\* every attempt was unhealthy or raised a request error it returns False,
\* after exactly max_retries attempts; and a health check that has started
\* comes to an end.
C28_HealthCheckTerminates ==
    /\ [](/\ deployment.attempts <= deployment.max_retries
          /\ deployment.pc = "health" =>
                deployment.seen \subseteq {"unhealthy", "request_error"}
          /\ "healthy" \in deployment.seen <=> deployment.health = "True"
          /\ (/\ deployment.pc = "done" /\ deployment.attempts > 0
              /\ deployment.seen \subseteq {"unhealthy", "request_error"})
             => deployment.health = "False"
          /\ deployment.health = "False" =>
                /\ deployment.attempts = deployment.max_retries
                /\ deployment.seen \subseteq {"unhealthy", "request_error"}
          /\ deployment.op = "_check_server_health" /\ deployment.pc = "done"
             => deployment.returned = deployment.health)
    /\ (deployment.pc = "health") ~> (deployment.pc = "done")

\* A health check with the default budget whose five attempts were
\* unhealthy responses and request errors has returned False.
C28_Witness ==
    /\ deployment.op = "_check_server_health" /\ deployment.pc = "done"
    /\ deployment.max_retries = MaxRetries /\ deployment.attempts = MaxRetries
    /\ deployment.seen = {"unhealthy", "request_error"}
    /\ deployment.returned = "False"

\* C29: in any sequence of calls of the serving API, each model is read from
\* its backing store successfully at most once, and an entry of the cache is
\* a configured model and never changes; a call of load_model for a cached
\* name returns the cached object without reading; for a name that is not
\* cached, load_model raises 404 exactly when the name is not in the
\* configuration, and 500 when the load fails; and a call that raised
\* leaves the cache and the read counts as they were.
C29_LoadedAtMostOnce ==
    /\ [](\A m \in ServedModels :
            /\ store_reads[m] <= 1
            /\ loaded_models[m] # NoModel =>
                  /\ loaded_models[m] = [model |-> m, read |-> 1]
                  /\ api_config.models[m] # "absent")
    /\ [][/\ \A m \in ServedModels :
                loaded_models[m] # NoModel => loaded_models'[m] = loaded_models[m]
          /\ served'.outcome # "none" =>
                LET m == served'.model_name
                IN  /\ loaded_models[m] # NoModel <=> served'.outcome = "cached"
                    /\ served'.outcome = "cached" =>
                          /\ served'.object = loaded_models[m]
                          /\ UNCHANGED <<loaded_models, store_reads>>
                    /\ served'.load_status = 404 <=>
                          /\ loaded_models[m] = NoModel
                          /\ api_config.models[m] = "absent"
                    /\ served'.outcome = "error" => served'.load_status = 500
                    /\ served'.load_status \in {404, 500} =>
                          UNCHANGED <<loaded_models, store_reads>>
                    /\ served'.outcome = "read" =>
                          /\ served'.object = loaded_models'[m]
                          /\ store_reads'[m] = store_reads[m] + 1]_vars

\* A prediction served from the cache with the object of the first read,
\* while another configured model, which cannot be loaded, is not cached.
C29_Witness ==
    /\ served.op = "predict" /\ served.outcome = "cached"
    /\ served.model_name = "m1"
    /\ served.object = [model |-> "m1", read |-> 1]
    /\ store_reads["m1"] = 1
    /\ api_config.models["m2"] = "pickle_no_path"
    /\ loaded_models["m2"] = NoModel

\* The tasks before the notification, in the order of their dependencies.
PipelineOrder == SubSeq(Tasks, 1, 7)

\* The registry: the deployer's configuration, in memory and on disk.
registry == <<deployer_config, config_file, config_backup>>

\* C30: in a pipeline run the registry changes only if the evaluation task
\* succeeded with an accuracy of at least 0.8, and a try of the deploy task
\* that finds otherwise fails and leaves the registry as it was; the tasks
\* other than the notification start in the order sensor, ingest, feature
\* engineering, train, evaluate, deploy, setup monitoring; the notification
\* starts only when deploy and setup monitoring are done, and it does run
\* in every run, whatever their outcome.
C30_PipelineGatesDeployment ==
    /\ [](/\ LET others == SelectSeq(started,
                              LAMBDA t : t # "deployment_notification")
             IN  others = SubSeq(PipelineOrder, 1, Len(others))
          /\ task_state["deployment_notification"] # "none" =>
                /\ task_state["deploy_model"] \in Finished
                /\ task_state["setup_monitoring"] \in Finished)
    /\ [][/\ registry' # registry =>
                /\ task_state["evaluate_model"] = "success"
                /\ xcom.metrics.has_accuracy
                /\ xcom.metrics.accuracy >= DeployThreshold
          /\ (/\ task_state["deploy_model"] = "running"
              /\ task_state'["deploy_model"] # "running"
              /\ ~(xcom.metrics.has_accuracy
                   /\ xcom.metrics.accuracy >= DeployThreshold))
             => /\ task_state'["deploy_model"] \in {"up_for_retry", "failed"}
                /\ UNCHANGED <<registry, deployment>>]_vars
    /\ <>(task_state["deployment_notification"] \in {"success", "failed"})

\* The notification was sent in a run whose deploy task failed on an
\* accuracy of 0.79, twice, and whose monitoring was never set up.
C30_Witness ==
    /\ task_state["deployment_notification"] = "success"
    /\ task_state["deploy_model"] = "failed"
    /\ task_tries["deploy_model"] = Retries + 1
    /\ task_state["setup_monitoring"] = "upstream_failed"
    /\ xcom.metrics = [has_accuracy |-> TRUE, accuracy |-> 79]
    /\ registry = <<deployment.before.config, deployment.before.file, NoFile>>
    /\ deployment.op = "__init__"

====
